---- MODULE Spec2Model ----
(***************************************************************************)
(* Model of package db of registrobr/gostk (src/db/db.go, lines 276-408):  *)
(* DB.Begin with its fail-fast gate, the bounded acquirer newTx with its   *)
(* background goroutine and three buffered channels, and dbChecker with    *)
(* its background check() loop.                                            *)
(*                                                                         *)
(* Every newTx invocation lives in a slot of inv: its channels and its     *)
(* goroutine.  When the caller of the invocation has left                  *)
(* and its goroutine has ended, the slot is cleared and the next           *)
(* invocation reuses it.  check() tasks that have not yet called start()   *)
(* are all alike and are counted in spawned; those that run (or ran) the   *)
(* loop are the records of prb.                                            *)
(***************************************************************************)
EXTENDS Integers, Sequences, FiniteSets, TLC

\* Number of concurrent DB.Begin callers.
NCallers == 2
\* Number of newTx invocations that may be alive at once.
MaxInv == 2
\* Number of check() tasks that may be past start() at once.
MaxProbers == 2
\* Number of check() tasks that may be waiting to call start().
MaxSpawned == NCallers
\* make(chan ..., 1): capacity of ch, chErr and cancel.
ChanCap == 1
\* a send on a channel made without a buffer waits for its receiver
hasRoomUnbuffered(q) == FALSE
\* a send on q goes through at once while the buffer of q is not full
hasRoom(q) == Len(q) < ChanCap
\* if i <= 2 { time.Sleep(1 * time.Second) }: the calls of the pool's Begin
\* that the mock of the outage tests makes slow.
SlowCalls == 2

Callers == 1..NCallers

\* no writer owns the RWMutex
NoWriter == 0
\* the zero value of sync.RWMutex: w the writer that has called Lock and
\* not yet Unlock, held whether it has the lock, r the readers that hold
\* it, rwait the readers blocked in RLock
FreeMutex == [w |-> NoWriter, held |-> FALSE, r |-> {}, rwait |-> {}]
Slots == 1..MaxInv
Probers == 1..MaxProbers

ErrNil == "nil"
ErrNewTxTimedOut == "new transaction timed out"
ErrUnreachable == "unreachable database"
\* errors the pool's begin primitive may return
UnderlyingErrs == {"disk full", "i'm a crazy error"}

\* the nil *sql.Tx; a transaction is named by the slot that created it
NilTx == 0

VARIABLES
    checking,   \* dbChecker.checking
    cpc,        \* cpc[c]: position of caller c in DB.Begin
    cinv,       \* cinv[c]: slot of the newTx invocation of caller c, or 0
    cres,       \* cres[c]: the (tx, err) pair DB.Begin returned to c
    inv,        \* inv[i]: the newTx invocation in slot i
    spawned,    \* check() tasks started by go func() that have not run yet
    prb,        \* prb[p]: a check() task past start()
    nbegin,     \* calls of the pool's Begin so far; past SlowCalls, "more"
    uq,         \* the last call of Unreachable: its argument and its result
    connParams, \* the ConnParams handed to ConnectPostgres
    dsn,        \* the connection string ConnectPostgres gave to sql.Open
    remoteLogger, \* package log: the syslog writer, or nil
    remoteOut,  \* what the last call of package log wrote to the syslog writer
    localOut,   \* what the last call of package log printed on localLogger
    lcall,      \* the last call of package log: its arguments and its result
    ucall,      \* the last call of RelevantPath or EqualMsg and its result
    mu,         \* the sync.RWMutex of dbChecker, step by step
    bg,         \* bg[c]: position of caller c around unreachable()
    ck          \* ck[p]: position of check() task p around start() and stop()

\* the state of package db around DB.Begin, of ConnectPostgres and of
\* package log, and everything that is not the state around DB.Begin
dbVars == <<checking, cpc, cinv, cres, inv, spawned, prb, nbegin>>
pgVars == <<connParams, dsn>>
logVars == <<remoteLogger, remoteOut, localOut, lcall>>
utilVars == <<ucall>>
lockVars == <<mu, bg, ck>>
outside == <<uq, pgVars, logVars, utilVars, lockVars>>

vars == <<dbVars, outside>>

NoRes == [tx |-> NilTx, err |-> "none"]

\* an unused slot
NoInv ==
    [gpc |-> "none", tx |-> NilTx, err |-> ErrNil,
     ch |-> <<>>, chErr |-> <<>>, cancel |-> <<>>, closed |-> FALSE,
     nres |-> "none", acqCommit |-> 0, prbCommit |-> 0]

\* newTx up to the select: three empty channels and the goroutine started
NewInv == [NoInv EXCEPT !.gpc = "calling"]

NoPrb == [pc |-> "idle", pinv |-> 0]

\* the *DB handed to Unreachable: nil, or the DB built by NewDB
NilDB == "nil"
TheDB == "db"
DBs == {NilDB, TheDB}

\* Unreachable has not been called yet
NoQuery == [db |-> "none", res |-> FALSE]

\* log.go: LevelEmergency ... LevelDebug
LevelEmergency == 0
LevelAlert == 1
LevelCritical == 2
LevelError == 3
LevelWarning == 4
LevelNotice == 5
LevelInfo == 6
LevelDebug == 7
Levels == LevelEmergency..LevelDebug

\* remoteLogger == nil, and a connected syslog writer
NilWriter == "nil"
SyslogWriter == "syslogWriter"

\* the error values handed to Logger.Error: nil, ...
NilError == [text |-> <<>>, leveler |-> FALSE, level |-> 0, isNil |-> TRUE]

\* no call of package log is under way; prev tells whether the last call
\* was a Close that closed the writer
NoCall ==
    [op |-> "none", prev |-> "none", rl |-> NilWriter, id |-> "", m |-> <<>>,
     a |-> <<>>, fail |-> {}, e |-> NilError, werr |-> ErrNil,
     ret |-> ErrNil]

\* neither RelevantPath nor EqualMsg has been called yet
NoUCall == [fn |-> "none", a |-> <<>>, b |-> <<>>, res |-> <<>>]

\* A time.Duration is counted here in milliseconds.
Millisecond == 1
Second == 1000 * Millisecond

\* NewConnParams(): the fields it does not name, Port among them, keep
\* their zero value
NewConnParams ==
    [Username |-> "", Password |-> "", DatabaseName |-> "",
     Host |-> "127.0.0.1", Port |-> 0,
     ConnectTimeout |-> 3 * Second, StatementTimeout |-> 10 * Second,
     MaxIdleConnections |-> 16, MaxOpenConnections |-> 32]

\* ConnectPostgres has not been called
NoDsn == <<>>

\* the gateway right after NewDB
DbIdle ==
    /\ checking = FALSE
    /\ cpc = [c \in Callers |-> "idle"]
    /\ cinv = [c \in Callers |-> 0]
    /\ cres = [c \in Callers |-> NoRes]
    /\ inv = [i \in Slots |-> NoInv]
    /\ spawned = 0
    /\ prb = [p \in Probers |-> NoPrb]
    /\ nbegin = 0

\* nothing has called ConnectPostgres; package log right after init()
PgIdle == connParams = NewConnParams /\ dsn = NoDsn
LogIdle ==
    /\ remoteLogger = NilWriter
    /\ remoteOut = <<>>
    /\ localOut = <<>>
    /\ lcall = NoCall

\* nobody holds or awaits the lock; no check() task exists
LockIdle ==
    /\ mu = FreeMutex
    /\ bg = [c \in Callers |-> [pc |-> "begin", val |-> FALSE]]
    /\ ck = [p \in Probers |-> [pc |-> "idle", ok |-> FALSE]]

Init ==
    /\ DbIdle
    /\ uq = NoQuery
    /\ PgIdle
    /\ LogIdle
    /\ ucall = NoUCall
    /\ LockIdle

\* in (ci, pr), slot i is referenced by a caller inside Begin or by a prober
Owned(ci, pr, i) ==
    \/ \E c \in Callers : ci[c] = i
    \/ \E p \in Probers : pr[p].pinv = i

\* the slots whose caller has left and whose goroutine has ended are cleared
Release(f, ci, pr) ==
    [i \in Slots |->
        IF f[i].gpc \in {"none", "dead", "hung"} /\ ~Owned(ci, pr, i)
        THEN NoInv ELSE f[i]]

FreeSlots == {i \in Slots : inv[i] = NoInv}

\* the count after a newTx that calls the pool a second time
CountedRetry(n) == IF n + 1 <= SlowCalls THEN n + 2 ELSE SlowCalls + 1

\* i++ in the mock of the pool's Begin; counts past SlowCalls are all alike
Counted(n) == IF n <= SlowCalls THEN n + 1 ELSE n

FreeSlot == CHOOSE i \in FreeSlots : \A j \in FreeSlots : i <= j

IdleProbers == {p \in Probers : prb[p].pc = "idle"}

IdleProber == CHOOSE p \in IdleProbers : \A q \in IdleProbers : p <= q

----------------------------------------------------------------------------
\* dbChecker

\* a gate that never sees the flag
unreachableNever == FALSE

unreachable == checking

\* a start() that forgets to raise the flag
startNoSet(flag) == [ok |-> ~flag, checking |-> flag]

\* a start() that always finds a check() running
startNever(flag) == [ok |-> FALSE, checking |-> flag]

\* a start() that does not test the flag
startAlways(flag) == [ok |-> TRUE, checking |-> TRUE]

\* start(): the value returned and the new value of the flag
start(flag) ==
    IF flag THEN [ok |-> FALSE, checking |-> flag]
            ELSE [ok |-> TRUE, checking |-> TRUE]

\* a stop() that leaves the flag alone
stopNoop(flag) == flag

\* stop(): the new value of the flag
stop(flag) == FALSE

\* an Unreachable that forgets the nil test and answers with the flag
UnreachableNoNilTest(db) == unreachable

\* if db == nil { return false }; return db.checker.unreachable()
Unreachable(db) == IF db = NilDB THEN FALSE ELSE unreachable

\* a health check calls Unreachable(db) and keeps the answer
UnreachableCall(db) ==
    /\ uq' = [db |-> db, res |-> Unreachable(db)]
    /\ uq' # uq
    /\ UNCHANGED <<dbVars, pgVars, logVars, utilVars, lockVars>>

----------------------------------------------------------------------------
\* the goroutine of newTx

\* tx, err := db.Begin() returns a transaction; ch <- tx.  The send goes
\* through when ch has room; on a full ch the goroutine would wait in it.
BeginOk(i) ==
    /\ inv[i].gpc = "calling"
    /\ inv' = IF hasRoom(inv[i].ch)
              THEN [inv EXCEPT ![i].tx = i, ![i].ch = Append(@, i),
                               ![i].gpc = "recvCancel"]
              ELSE [inv EXCEPT ![i].tx = i, ![i].gpc = "sendCh"]
    /\ UNCHANGED <<checking, cpc, cinv, cres, spawned, prb>>
    /\ UNCHANGED <<nbegin, outside>>

\* tx, err := db.Begin() returns an error; chErr <- err; return.  On a full
\* chErr the goroutine would wait in the send.
BeginErr(i, e) ==
    /\ inv[i].gpc = "calling"
    /\ inv' = IF hasRoom(inv[i].chErr)
              THEN Release([inv EXCEPT ![i].err = e,
                                       ![i].chErr = Append(@, e),
                                       ![i].gpc = "dead"], cinv, prb)
              ELSE [inv EXCEPT ![i].err = e, ![i].gpc = "sendErr"]
    /\ UNCHANGED <<checking, cpc, cinv, cres, spawned, prb>>
    /\ UNCHANGED <<nbegin, outside>>

\* db.Begin() never returns: the goroutine stays blocked in it for ever.
\* Nobody refers to the invocation any more, so it leaves the model.
BeginHang(i) ==
    /\ inv[i].gpc = "calling"
    /\ inv[i].nres = "timeout"
    /\ ~Owned(cinv, prb, i)
    /\ inv' = Release([inv EXCEPT ![i].gpc = "hung"], cinv, prb)
    /\ UNCHANGED <<checking, cpc, cinv, cres, spawned, prb>>
    /\ UNCHANGED <<nbegin, outside>>

\* a goroutine that never commits, and one that commits whatever it is told
CommitNever(c, ok) == FALSE
CommitAlways(c, ok) == ok

\* whether the goroutine commits after c, ok := <-cancel
CommitOnCancel(c, ok) == ok /\ c

\* if c, ok := <-cancel; ok && c { tx.Commit() }
GRecvCancel(i) ==
    /\ inv[i].gpc = "recvCancel"
    /\ inv[i].cancel # <<>> \/ inv[i].closed
    /\ LET ok == inv[i].cancel # <<>>
           c == IF ok THEN Head(inv[i].cancel) ELSE FALSE
       IN inv' = Release([inv EXCEPT
                    ![i].cancel = IF ok THEN Tail(@) ELSE @,
                    ![i].acqCommit = IF CommitOnCancel(c, ok) THEN @ + 1 ELSE @,
                    ![i].gpc = IF CommitOnCancel(c, ok) THEN "committed" ELSE "dead"],
                    cinv, prb)
    /\ UNCHANGED <<checking, cpc, cinv, cres, spawned, prb>>
    /\ UNCHANGED <<nbegin, outside>>

\* the goroutine ends after its commit
GReturn(i) ==
    /\ inv[i].gpc = "committed"
    /\ inv' = Release([inv EXCEPT ![i].gpc = "dead"], cinv, prb)
    /\ UNCHANGED <<checking, cpc, cinv, cres, spawned, prb>>
    /\ UNCHANGED <<nbegin, outside>>

----------------------------------------------------------------------------
\* the select of newTx: every ready case may be the one chosen

\* case tx := <-ch: cancel <- false; return tx, nil
SelectCh(r) ==
    IF r.ch # <<>> /\ hasRoom(r.cancel)
    THEN {[tx |-> Head(r.ch), err |-> ErrNil,
           inv |-> [r EXCEPT !.ch = Tail(@), !.cancel = Append(@, FALSE),
                             !.nres = "tx"]]}
    ELSE {}

\* case err := <-chErr: close(cancel); return nil, err
SelectChErr(r) ==
    IF r.chErr # <<>>
    THEN {[tx |-> NilTx, err |-> Head(r.chErr),
           inv |-> [r EXCEPT !.chErr = Tail(@), !.closed = TRUE,
                             !.nres = "err"]]}
    ELSE {}

\* a timeout case that still hands out a transaction found in ch
SelectTimeoutLeak(r) ==
    IF hasRoom(r.cancel)
    THEN {[tx |-> IF r.ch # <<>> THEN Head(r.ch) ELSE NilTx,
           err |-> ErrNewTxTimedOut,
           inv |-> [r EXCEPT !.cancel = Append(@, TRUE),
                             !.nres = "timeout"]]}
    ELSE {}

\* a timeout case that puts nothing on cancel
SelectTimeoutNoCancel(r) ==
    {[tx |-> NilTx, err |-> ErrNewTxTimedOut,
      inv |-> [r EXCEPT !.nres = "timeout"]]}

\* a timeout case that tells the goroutine to keep the transaction
SelectTimeoutFalse(r) ==
    IF hasRoom(r.cancel)
    THEN {[tx |-> NilTx, err |-> ErrNewTxTimedOut,
           inv |-> [r EXCEPT !.cancel = Append(@, FALSE),
                             !.nres = "timeout"]]}
    ELSE {}

\* case <-time.After(timeout): cancel <- true; return nil, ErrNewTxTimedOut
\* (the timer may deliver at any moment the select is waiting)
SelectTimeout(r) ==
    IF hasRoom(r.cancel)
    THEN {[tx |-> NilTx, err |-> ErrNewTxTimedOut,
           inv |-> [r EXCEPT !.cancel = Append(@, TRUE),
                             !.nres = "timeout"]]}
    ELSE {}

\* a select without the timer case
newTxNoTimer(r) == SelectCh(r) \cup SelectChErr(r)

newTx(r) == SelectCh(r) \cup SelectChErr(r) \cup SelectTimeout(r)

----------------------------------------------------------------------------
\* DB.Begin

\* a Begin that never starts check(), one that starts it on every error,
\* one that starts it on the errors of the pool and one that starts it
\* after every newTx
SpawnsCheckOnErr(err) == err \in UnderlyingErrs
SpawnsCheckNever(err) == FALSE
SpawnsCheckAnyErr(err) == err # ErrNil
SpawnsCheckAlways(err) == TRUE

\* whether DB.Begin spawns check() after newTx returned err
SpawnsCheck(err) == err = ErrNewTxTimedOut

InSelect == Cardinality({c \in Callers : cpc[c] = "select"})

\* if db.checker.unreachable() { return nil, ErrUnreachable }; newTx starts
Begin(c) ==
    /\ cpc[c] = "idle"
    /\ IF unreachable
       THEN /\ cpc' = [cpc EXCEPT ![c] = "done"]
            /\ cres' = [cres EXCEPT ![c] = [tx |-> NilTx, err |-> ErrUnreachable]]
            /\ UNCHANGED <<cinv, inv, nbegin>>
       ELSE /\ FreeSlots # {}
            /\ spawned + InSelect < MaxSpawned
            /\ inv' = [inv EXCEPT ![FreeSlot] = NewInv]
            /\ cinv' = [cinv EXCEPT ![c] = FreeSlot]
            /\ cpc' = [cpc EXCEPT ![c] = "select"]
            /\ nbegin' = Counted(nbegin)
            /\ UNCHANGED cres
    /\ UNCHANGED <<checking, spawned, prb>>
    /\ UNCHANGED outside

\* a DB.Begin that logs a warning when newTx timed out
BeginLogWarning(err) ==
    IF err = ErrNewTxTimedOut
    THEN <<[prefix |-> <<>>, file |-> <<>>, line |-> 0,
            item |-> <<ErrNewTxTimedOut>>]>>
    ELSE <<>>

\* what DB.Begin writes through package log after newTx returned err:
\* nothing, package db does not use package log
BeginLog(err) == <<>>

\* newTx returns; go check() on a timeout; return tx, err
BeginSelect(c) ==
    /\ cpc[c] = "select"
    /\ \E o \in newTx(inv[cinv[c]]) :
          /\ inv' = [inv EXCEPT ![cinv[c]] = o.inv]
          /\ cres' = [cres EXCEPT ![c] = [tx |-> o.tx, err |-> o.err]]
          /\ spawned' = IF SpawnsCheck(o.err) THEN spawned + 1 ELSE spawned
    /\ cpc' = [cpc EXCEPT ![c] = "done"]
    /\ localOut' = localOut \o BeginLog(cres'[c].err)
    /\ UNCHANGED <<checking, cinv, prb, nbegin>>
    /\ UNCHANGED <<uq, pgVars, remoteLogger, remoteOut, lcall, utilVars, lockVars>>

\* the caller takes the result away and may call Begin again
Return(c) ==
    /\ cpc[c] = "done"
    /\ cpc' = [cpc EXCEPT ![c] = "idle"]
    /\ cinv' = [cinv EXCEPT ![c] = 0]
    /\ cres' = [cres EXCEPT ![c] = NoRes]
    /\ inv' = Release(inv, cinv', prb)
    /\ UNCHANGED <<checking, spawned, prb>>
    /\ UNCHANGED <<nbegin, outside>>

----------------------------------------------------------------------------
\* dbChecker.check

\* if !d.start() { return }
CheckStart ==
    /\ spawned > 0
    /\ start(checking).ok => IdleProbers # {}
    /\ checking' = start(checking).checking
    /\ spawned' = spawned - 1
    /\ prb' = IF start(checking).ok
              THEN [prb EXCEPT ![IdleProber].pc = "loop"]
              ELSE prb
    /\ UNCHANGED <<cpc, cinv, cres, inv>>
    /\ UNCHANGED <<nbegin, outside>>

\* a loop that takes a tick while its last newTx has not returned
TickTakenAnyTime(pc) == pc \in {"loop", "probing"}

\* the body of the loop runs to its end before the next tick is taken
TickTaken(pc) == pc = "loop"

\* for range time.Tick(2 * time.Second) { ... newTx(db, duration) starts
Tick(p) ==
    /\ TickTaken(prb[p].pc)
    /\ FreeSlots # {}
    /\ inv' = [inv EXCEPT ![FreeSlot] = NewInv]
    /\ prb' = [prb EXCEPT ![p] = [pc |-> "probing", pinv |-> FreeSlot]]
    /\ nbegin' = Counted(nbegin)
    /\ UNCHANGED <<checking, cpc, cinv, cres, spawned>>
    /\ UNCHANGED outside

\* a check() that takes any return of newTx for the database being back
ProbeGoesOnNever(err) == FALSE

\* if err != nil { continue }
ProbeGoesOn(err) == err # ErrNil

\* a check() that probes through DB.Begin: a timeout starts a check()
ProbeSpawnsOnTimeout(err) == err = ErrNewTxTimedOut /\ spawned < MaxSpawned

\* whether a probe that returned err starts a check() task: check() calls
\* newTx itself, which starts none
ProbeSpawns(err) == FALSE

\* tx, err := newTx(db, duration); if err != nil { continue }
ProbeSelect(p) ==
    /\ prb[p].pc = "probing"
    /\ \E o \in newTx(inv[prb[p].pinv]) :
          /\ prb' = [prb EXCEPT ![p] = IF ProbeGoesOn(o.err)
                                       THEN [pc |-> "loop", pinv |-> 0]
                                       ELSE [pc |-> "gotTx", pinv |-> @.pinv]]
          /\ inv' = Release([inv EXCEPT ![prb[p].pinv] = o.inv], cinv, prb')
          /\ spawned' = IF ProbeSpawns(o.err) THEN spawned + 1 ELSE spawned
    /\ UNCHANGED <<checking, cpc, cinv, cres>>
    /\ UNCHANGED <<nbegin, outside>>

\* d.stop()
Stop(p) ==
    /\ prb[p].pc = "gotTx"
    /\ checking' = stop(checking)
    /\ prb' = [prb EXCEPT ![p].pc = "stopped"]
    /\ UNCHANGED <<cpc, cinv, cres, inv, spawned>>
    /\ UNCHANGED <<nbegin, outside>>

\* tx.Commit()
Commit(p) ==
    /\ prb[p].pc = "stopped"
    /\ inv' = [inv EXCEPT ![prb[p].pinv].prbCommit = @ + 1]
    /\ prb' = [prb EXCEPT ![p].pc = "committed"]
    /\ UNCHANGED <<checking, cpc, cinv, cres, spawned>>
    /\ UNCHANGED <<nbegin, outside>>

\* return: check() ends
CheckReturn(p) ==
    /\ prb[p].pc = "committed"
    /\ prb' = [prb EXCEPT ![p] = NoPrb]
    /\ inv' = Release(inv, cinv, prb')
    /\ UNCHANGED <<checking, cpc, cinv, cres, spawned>>
    /\ UNCHANGED <<nbegin, outside>>

----------------------------------------------------------------------------
Next ==
    \/ \E c \in Callers : Begin(c)
    \/ \E c \in Callers : BeginSelect(c)
    \/ \E c \in Callers : Return(c)
    \/ \E i \in Slots : BeginOk(i)
    \/ \E i \in Slots : \E e \in UnderlyingErrs : BeginErr(i, e)
    \/ \E i \in Slots : BeginHang(i)
    \/ \E i \in Slots : GRecvCancel(i)
    \/ \E i \in Slots : GReturn(i)
    \/ CheckStart
    \/ \E p \in Probers : Tick(p)
    \/ \E p \in Probers : ProbeSelect(p)
    \/ \E p \in Probers : Stop(p)
    \/ \E p \in Probers : Commit(p)
    \/ \E p \in Probers : CheckReturn(p)

Spec == Init /\ [][Next]_vars

\* beside the health check, one client calls DB.Begin again and again
BeginCallers == {1}

\* the gateway with a health check that calls Unreachable at any moment
NextU ==
    \/ \E c \in BeginCallers : Begin(c)
    \/ \E c \in BeginCallers : BeginSelect(c)
    \/ \E c \in BeginCallers : Return(c)
    \/ \E i \in Slots : BeginOk(i)
    \/ \E i \in Slots : \E e \in UnderlyingErrs : BeginErr(i, e)
    \/ \E i \in Slots : BeginHang(i)
    \/ \E i \in Slots : GRecvCancel(i)
    \/ \E i \in Slots : GReturn(i)
    \/ CheckStart
    \/ \E p \in Probers : Tick(p)
    \/ \E p \in Probers : ProbeSelect(p)
    \/ \E p \in Probers : Stop(p)
    \/ \E p \in Probers : Commit(p)
    \/ \E p \in Probers : CheckReturn(p)
    \/ \E db \in DBs : UnreachableCall(db)

SpecU == Init /\ [][NextU]_vars

\* the steps of one caller inside DB.Begin, of one newTx goroutine after its
\* begin call has returned, and of one check() task past start()
CallerStep(c) == BeginSelect(c) \/ Return(c)
GoroutineStep(i) == GRecvCancel(i) \/ GReturn(i)
ProberStep(p) ==
    Tick(p) \/ ProbeSelect(p) \/ Stop(p) \/ Commit(p) \/ CheckReturn(p)

\* The Go scheduler runs every runnable goroutine, timers and tickers
\* deliver, and a caller that got its result leaves.  Nothing is assumed
\* of the pool: a begin call may take any time or never return, and nobody
\* has to call Begin.
Fairness ==
    /\ \A c \in Callers : WF_vars(CallerStep(c))
    /\ \A i \in Slots : WF_vars(GoroutineStep(i))
    /\ \A p \in Probers : WF_vars(ProberStep(p))
    /\ WF_vars(CheckStart)

FairSpec == Spec /\ Fairness

----------------------------------------------------------------------------
\* the outage scenarios of TestDB_Begin: the pool's Begin sleeps one second
\* in its first SlowCalls calls, far longer than the 10ms timeout of newTx,
\* and returns a transaction at once in every later call

\* the goroutine of the test
Driver == 1

\* whether the n-th call of the pool's Begin sleeps
Slow(n) == n <= SlowCalls

\* scenario.db.Begin(), first or after time.Sleep(scenario.rerunDelay):
\* by then every go check() of an earlier Begin has run its start()
Drive ==
    /\ spawned = 0
    /\ Begin(Driver)

\* the pool's Begin returns a transaction: a call that sleeps returns after
\* the select of its newTx has taken the timeout
PoolBegin(i) ==
    /\ inv[i].nres = "none" => ~Slow(nbegin)
    /\ BeginOk(i)

\* the select of the driver's newTx: a call that does not sleep has put its
\* transaction on ch before the timer is due
DriverSelect ==
    /\ BeginSelect(Driver)
    /\ ~Slow(nbegin) => cres'[Driver].err = ErrNil

\* the select of the prober's newTx, likewise
ProbeSelectOutage(p) ==
    /\ ProbeSelect(p)
    /\ ~Slow(nbegin) => prb'[p].pc = "gotTx"

OutageNext ==
    \/ Drive
    \/ DriverSelect
    \/ Return(Driver)
    \/ \E i \in Slots : PoolBegin(i)
    \/ \E i \in Slots : GRecvCancel(i)
    \/ \E i \in Slots : GReturn(i)
    \/ CheckStart
    \/ \E p \in Probers : Tick(p)
    \/ \E p \in Probers : ProbeSelectOutage(p)
    \/ \E p \in Probers : Stop(p)
    \/ \E p \in Probers : Commit(p)
    \/ \E p \in Probers : CheckReturn(p)

OutageSpec == Init /\ [][OutageNext]_vars

----------------------------------------------------------------------------
\* ConnectPostgres

\* the largest timeout tried, in seconds
MaxSeconds == 10

\* the ports and the timeouts (whole seconds) a caller may configure
Ports == {0, 1, 5432, 5433, 65535}
Durations == {k * Second : k \in 0..MaxSeconds}

\* d.Seconds(), for a duration of whole seconds and milliseconds
Seconds(d) == [whole |-> d \div Second, milli |-> d % Second]

\* int(x) and int(x * 1000) of a number of seconds
IntOf(x) == x.whole
IntOfTimes1000(x) == x.whole * 1000 + x.milli

\* a ConnectPostgres that writes statement_timeout in seconds
connStringSeconds(d) ==
    [user |-> d.Username, password |-> d.Password,
     dbname |-> d.DatabaseName, sslmode |-> "disable", host |-> d.Host,
     port |-> d.Port,
     connect_timeout |-> IntOf(Seconds(d.ConnectTimeout)),
     statement_timeout |-> IntOf(Seconds(d.StatementTimeout))]

\* fmt.Sprintf("user=%s password=%s dbname=%s sslmode=disable host=%s
\* port=%d connect_timeout=%d statement_timeout=%d", ...): the value of
\* every key of the connection string
connString(d) ==
    [user |-> d.Username, password |-> d.Password,
     dbname |-> d.DatabaseName, sslmode |-> "disable", host |-> d.Host,
     port |-> d.Port,
     connect_timeout |-> IntOf(Seconds(d.ConnectTimeout)),
     statement_timeout |-> IntOfTimes1000(Seconds(d.StatementTimeout))]

\* d := db.NewConnParams(); d.DatabaseName = "test"; d.Username = "user";
\* d.Password = "passwd"; and a port and timeouts of the caller's choice
FillConnParams(port, ct, st) ==
    /\ dsn = NoDsn
    /\ connParams = NewConnParams
    /\ connParams' = [NewConnParams EXCEPT
                        !.DatabaseName = "test", !.Username = "user",
                        !.Password = "passwd", !.Port = port,
                        !.ConnectTimeout = ct, !.StatementTimeout = st]
    /\ UNCHANGED <<dbVars, uq, utilVars, lockVars, dsn, logVars>>

\* ConnectPostgres(d) up to sql.Open(PostgresDriver, connParams)
ConnectPostgres ==
    /\ dsn = NoDsn
    /\ dsn' = connString(connParams)
    /\ UNCHANGED <<dbVars, uq, utilVars, lockVars, connParams, logVars>>

\* the caller is done with this connection and configures another one
Reconfigure ==
    /\ dsn # NoDsn
    /\ connParams' = NewConnParams
    /\ dsn' = NoDsn
    /\ UNCHANGED <<dbVars, uq, utilVars, lockVars, logVars>>

PgNext ==
    \/ \E port \in Ports : \E ct, st \in Durations :
          FillConnParams(port, ct, st)
    \/ ConnectPostgres
    \/ Reconfigure

PgSpec == Init /\ [][PgNext]_vars

----------------------------------------------------------------------------
\* package log

\* the longest message tried, in characters
MaxMsgLen == 3

\* the characters of a message: a letter, the newline and the verb %s
NL == "\n"
Verb == "%s"
Chars == {"a", NL, Verb}
Messages == UNION {[1..n -> Chars] : n \in 0..MaxMsgLen}

\* the a ...interface{} of the f methods: no argument, or one string
ArgLists == {<<>>, <<"b">>, <<NL>>}

\* the identifiers given to NewLogger
Identifiers == {"", "test"}

\* the errors a write to syslog and Close may return
WriteErr == "error detected"
CloseErrs == {ErrNil, "generic error"}

\* the error values handed to Logger.Error: nil, an error without level
\* and errors with a Level() method, of a known level or not
WrongLevels == {LevelDebug + 1, 0 - 1}
Errors ==
    {NilError}
    \cup {[text |-> <<"a", NL, NL, "a">>, leveler |-> FALSE, level |-> 0,
           isNil |-> FALSE]}
    \cup {[text |-> <<"a">>, leveler |-> TRUE, level |-> lv, isNil |-> FALSE] :
            lv \in Levels \cup WrongLevels}

\* runtime.Caller(2): the file, as its path elements, and the line
CallerFile == <<"", "home", "go", "src", "app", "main.go">>
CallerLine == 42

\* a relevantPath that keeps one element more
relevantPathOneMore(path, n) ==
    IF n >= Len(path) THEN path
    ELSE SubSeq(path, Len(path) - n, Len(path))

\* relevantPath(path, n): the last n elements of the path
relevantPath(path, n) ==
    IF n >= Len(path) THEN path
    ELSE SubSeq(path, Len(path) - n + 1, Len(path))

\* NewLogger(id): logger{"[" + id + "] "}
NewLogger(id) == [identifier |-> <<"[", id, "] ">>]

\* strings.Split(message, "\n")
RECURSIVE Split(_)
Split(m) ==
    IF \A k \in 1..Len(m) : m[k] # NL
    THEN <<m>>
    ELSE LET k == CHOOSE k \in 1..Len(m) :
                     m[k] = NL /\ \A j \in 1..(k - 1) : m[j] # NL
         IN <<SubSeq(m, 1, k - 1)>> \o Split(SubSeq(m, k + 1, Len(m)))

\* fmt.Sprintf(message, a...) for the verb %s
RECURSIVE Sprintf(_, _)
Sprintf(m, a) ==
    IF m = <<>>
    THEN IF a = <<>> THEN <<>> ELSE <<"%!(EXTRA string=", Head(a), ")">>
    ELSE IF Head(m) = Verb
         THEN IF a = <<>>
              THEN <<"%!s(MISSING)">> \o Sprintf(Tail(m), a)
              ELSE <<Head(a)>> \o Sprintf(Tail(m), Tail(a))
         ELSE <<Head(m)>> \o Sprintf(Tail(m), a)

\* fmt.Sprintf("%s%s:%d: %s", prefix, file, line, item)
SourceInfo(prefix, item) ==
    [prefix |-> prefix, file |-> relevantPath(CallerFile, 3),
     line |-> CallerLine, item |-> item]

\* msg := l.identifier + e.Error()
ErrorMsg(prefix, text) ==
    [prefix |-> prefix, file |-> <<>>, line |-> 0, item |-> text]

\* localLogger.Println("Error writing to syslog. Details:", err)
ErrorWriting ==
    [prefix |-> <<>>, file |-> <<>>, line |-> 0,
     item |-> <<"Error writing to syslog. Details:", WriteErr>>]

\* for _, item := range lines { if item == "" { continue }; msg := ... }
sourceLines(prefix, message) ==
    LET items == SelectSeq(Split(message), LAMBDA item : item # <<>>)
    IN [k \in 1..Len(items) |-> SourceInfo(prefix, items[k])]

\* localLogWithSourceInfo: what it prints on localLogger
localLogWithSourceInfo(prefix, message) ==
    [remote |-> <<>>, local |-> sourceLines(prefix, message)]

\* the loop of a logWithSourceInfo that drops the line of a failed write
RECURSIVE writeLinesNoFallback(_, _, _, _)
writeLinesNoFallback(f, msgs, k, fail) ==
    IF k > Len(msgs)
    THEN [remote |-> <<>>, local |-> <<>>]
    ELSE LET rest == writeLinesNoFallback(f, msgs, k + 1, fail)
         IN IF k \in fail
            THEN [remote |-> rest.remote,
                  local |-> <<ErrorWriting>> \o rest.local]
            ELSE [remote |-> <<[method |-> f, msg |-> msgs[k]]>> \o rest.remote,
                  local |-> rest.local]

\* if err := f(msg); err != nil { localLogger.Println("Error writing to
\* syslog. Details:", err); localLogger.Println(msg) }, for the lines from
\* the k-th on; the writes whose number is in fail return an error
RECURSIVE writeLines(_, _, _, _)
writeLines(f, msgs, k, fail) ==
    IF k > Len(msgs)
    THEN [remote |-> <<>>, local |-> <<>>]
    ELSE LET rest == writeLines(f, msgs, k + 1, fail)
         IN IF k \in fail
            THEN [remote |-> rest.remote,
                  local |-> <<ErrorWriting, msgs[k]>> \o rest.local]
            ELSE [remote |-> <<[method |-> f, msg |-> msgs[k]]>> \o rest.remote,
                  local |-> rest.local]

\* logWithSourceInfo(f, prefix, message), f a method of the syslog writer
logWithSourceInfo(f, prefix, message, fail) ==
    writeLines(f, sourceLines(prefix, message), 1, fail)

\* localLogWithSourceInfof and logWithSourceInfof
localLogWithSourceInfof(prefix, message, a) ==
    localLogWithSourceInfo(prefix, Sprintf(message, a))
logWithSourceInfof(f, prefix, message, a, fail) ==
    logWithSourceInfo(f, prefix, Sprintf(message, a), fail)

\* the writes to syslog that may fail during one call, by their number
FailSets == SUBSET (1..MaxMsgLen)

\* no call of package log is under way
LogIdling == lcall.op = "none"

\* a function of package log is entered with no other call of the package
\* under way; out is what it writes before it returns
logCalled(op, id, m, a, fail, e, werr, ret, out) ==
    /\ LogIdling
    /\ lcall' = [op |-> op, prev |-> lcall.prev, rl |-> remoteLogger,
                 id |-> id, m |-> m, a |-> a, fail |-> fail, e |-> e,
                 werr |-> werr, ret |-> ret]
    /\ remoteOut' = out.remote
    /\ localOut' = out.local

\* if remoteLogger == nil { localLogWithSourceInfo(l.identifier, m) }
\* else { logWithSourceInfo(remoteLogger.f, l.identifier, m) }
levelMethod(op, f, id, m, fail) ==
    /\ remoteLogger = NilWriter => fail = {}
    /\ LET l == NewLogger(id)
       IN logCalled(op, id, m, <<>>, fail, NilError, ErrNil, ErrNil,
                    IF remoteLogger = NilWriter
                    THEN localLogWithSourceInfo(l.identifier, m)
                    ELSE logWithSourceInfo(f, l.identifier, m, fail))
    /\ UNCHANGED <<dbVars, uq, utilVars, lockVars, pgVars, remoteLogger>>

\* if remoteLogger == nil { localLogWithSourceInfof(l.identifier, m, a...) }
\* else { logWithSourceInfof(remoteLogger.f, l.identifier, m, a...) }
levelMethodf(op, f, id, m, a, fail) ==
    /\ remoteLogger = NilWriter => fail = {}
    /\ LET l == NewLogger(id)
       IN logCalled(op, id, m, a, fail, NilError, ErrNil, ErrNil,
                    IF remoteLogger = NilWriter
                    THEN localLogWithSourceInfof(l.identifier, m, a)
                    ELSE logWithSourceInfof(f, l.identifier, m, a, fail))
    /\ UNCHANGED <<dbVars, uq, utilVars, lockVars, pgVars, remoteLogger>>

Emerg(id, m, fail) == levelMethod("Emerg", "Emerg", id, m, fail)
Emergf(id, m, a, fail) == levelMethodf("Emergf", "Emerg", id, m, a, fail)
Alert(id, m, fail) == levelMethod("Alert", "Alert", id, m, fail)
Alertf(id, m, a, fail) == levelMethodf("Alertf", "Alert", id, m, a, fail)
Crit(id, m, fail) == levelMethod("Crit", "Crit", id, m, fail)
Critf(id, m, a, fail) == levelMethodf("Critf", "Crit", id, m, a, fail)
Errorf(id, m, a, fail) == levelMethodf("Errorf", "Err", id, m, a, fail)
Warning(id, m, fail) == levelMethod("Warning", "Warning", id, m, fail)
Warningf(id, m, a, fail) == levelMethodf("Warningf", "Warning", id, m, a, fail)
Notice(id, m, fail) == levelMethod("Notice", "Notice", id, m, fail)
Noticef(id, m, a, fail) == levelMethodf("Noticef", "Notice", id, m, a, fail)
Info(id, m, fail) == levelMethod("Info", "Info", id, m, fail)
Infof(id, m, a, fail) == levelMethodf("Infof", "Info", id, m, a, fail)
Debug(id, m, fail) == levelMethod("Debug", "Debug", id, m, fail)
Debugf(id, m, a, fail) == levelMethodf("Debugf", "Debug", id, m, a, fail)

\* the message of the default case of Logger.Error
WrongErrorLevel == <<"Wrong error level: ", Verb>>

\* a switch of Logger.Error that writes every levelled error at Err level
levelWriterErr(lv) == "Err"

\* switch levelError.Level(): the method of the writer the error goes to
levelWriter(lv) ==
    CASE lv = LevelEmergency -> "Emerg"
      [] lv = LevelAlert -> "Alert"
      [] lv = LevelCritical -> "Crit"
      [] lv = LevelError -> "Err"
      [] lv = LevelWarning -> "Warning"
      [] lv = LevelNotice -> "Notice"
      [] lv = LevelInfo -> "Info"
      [] lv = LevelDebug -> "Debug"
      [] OTHER -> "Err"

\* what Logger.Error writes for a non-nil error
errorOut(l, e, fail) ==
    LET msg == ErrorMsg(l.identifier, e.text)
    IN IF remoteLogger = NilWriter
       THEN [remote |-> <<>>, local |-> <<msg>>]
       ELSE LET warn ==
                    IF e.leveler /\ e.level \notin Levels
                    THEN logWithSourceInfof("Warning", l.identifier,
                                            WrongErrorLevel,
                                            <<ToString(e.level)>>, fail)
                    ELSE [remote |-> <<>>, local |-> <<>>]
                f == IF e.leveler THEN levelWriter(e.level) ELSE "Err"
                k == IF e.leveler /\ e.level \notin Levels THEN 2 ELSE 1
            IN IF k \in fail
               THEN [remote |-> warn.remote,
                     local |-> warn.local \o <<ErrorWriting, msg>>]
               ELSE [remote |-> warn.remote \o <<[method |-> f, msg |-> msg]>>,
                     local |-> warn.local]

\* Logger.Error(e)
Error(id, e, fail) ==
    /\ remoteLogger = NilWriter \/ e.isNil => fail = {}
    /\ LET l == NewLogger(id)
       IN logCalled("Error", id, <<>>, <<>>, fail, e, ErrNil, ErrNil,
                    IF e.isNil
                    THEN [remote |-> <<>>, local |-> <<>>]
                    ELSE errorOut(l, e, fail))
    /\ UNCHANGED <<dbVars, uq, utilVars, lockVars, pgVars, remoteLogger>>

\* a Close that forgets the writer even when closing it failed
closedWriterAlways(w, err) == NilWriter

\* err := remoteLogger.Close(); if err == nil { remoteLogger = nil }
closedWriter(w, err) == IF err = ErrNil THEN NilWriter ELSE w

\* log.Close(); err is what the writer's Close returns
Close(err) ==
    /\ remoteLogger = NilWriter => err = ErrNil
    /\ logCalled("Close", "", <<>>, <<>>, {}, NilError, err,
                 IF remoteLogger = NilWriter THEN ErrNil ELSE err,
                 [remote |-> remoteOut, local |-> localOut])
    /\ remoteLogger' = IF remoteLogger = NilWriter
                       THEN remoteLogger
                       ELSE closedWriter(remoteLogger, err)
    /\ UNCHANGED <<dbVars, uq, utilVars, lockVars, pgVars>>

\* the call returns; what is kept of it is whether it closed the writer
LogReturn ==
    /\ lcall.op # "none"
    /\ lcall' = [NoCall EXCEPT !.prev =
                    IF /\ lcall.op = "Close"
                       /\ lcall.rl # NilWriter
                       /\ remoteLogger = NilWriter
                    THEN "closed" ELSE "none"]
    /\ remoteOut' = <<>>
    /\ localOut' = <<>>
    /\ UNCHANGED <<dbVars, uq, utilVars, lockVars, pgVars, remoteLogger>>

\* the program connects to syslog, or a test installs its writer
SetRemoteLogger(w) ==
    /\ LogIdling
    /\ remoteLogger # w
    /\ remoteLogger' = w
    /\ lcall' = [lcall EXCEPT !.prev = "none"]
    /\ UNCHANGED <<dbVars, uq, utilVars, lockVars, pgVars, remoteOut, localOut>>

LogNext ==
    \/ /\ LogIdling
       /\ \E id \in Identifiers : \E m \in Messages : \E fail \in FailSets :
             \/ Emerg(id, m, fail)
             \/ Alert(id, m, fail)
             \/ Crit(id, m, fail)
             \/ Warning(id, m, fail)
             \/ Notice(id, m, fail)
             \/ Info(id, m, fail)
             \/ Debug(id, m, fail)
             \/ \E a \in ArgLists :
                   \/ Emergf(id, m, a, fail)
                   \/ Alertf(id, m, a, fail)
                   \/ Critf(id, m, a, fail)
                   \/ Errorf(id, m, a, fail)
                   \/ Warningf(id, m, a, fail)
                   \/ Noticef(id, m, a, fail)
                   \/ Infof(id, m, a, fail)
                   \/ Debugf(id, m, a, fail)
    \/ /\ LogIdling
       /\ \E id \in Identifiers : \E e \in Errors : \E fail \in FailSets :
             Error(id, e, fail)
    \/ \E err \in CloseErrs : Close(err)
    \/ LogReturn
    \/ \E w \in {NilWriter, SyslogWriter} : SetRemoteLogger(w)

LogSpec == Init /\ [][LogNext]_vars

----------------------------------------------------------------------------
\* packages path and errors

\* the longest path tried, in components
MaxPathLen == 4

\* a path is the sequence of its components between the "/"
PathParts == {"1", "2"}
Paths == UNION {[1..k -> PathParts] : k \in 1..MaxPathLen}
PathNs == (0 - 2)..(MaxPathLen + 1)

\* path.RelevantPath as its test describes it
RelevantPath(path, n) ==
    IF n <= 0 \/ n >= Len(path)
    THEN path
    ELSE SubSeq(path, Len(path) - n + 1, Len(path))

\* path := RelevantPath(scenario.path, scenario.n)
RelevantPathCall(path, n) ==
    /\ ucall' = [fn |-> "RelevantPath", a |-> path, b |-> n,
                 res |-> RelevantPath(path, n)]
    /\ UNCHANGED <<dbVars, uq, pgVars, logVars, lockVars>>

\* the errors handed to EqualMsg: nil, an error of fmt.Errorf, and a
\* traceableError that wraps such an error at some place of the source;
\* msg is the message of the plain error
ErrorMessages == {"this is a test 1", "this is a test 2"}
ErrorPlaces == {"errors_test.go:20", "errors_test.go:21"}
NilErr == [kind |-> "nil", place |-> "", msg |-> ""]
PlainErrs == {[kind |-> "plain", place |-> "", msg |-> m] : m \in ErrorMessages}
TraceableErrs ==
    {[kind |-> "traceable", place |-> pl, msg |-> m] :
        pl \in ErrorPlaces, m \in ErrorMessages}
ErrValues == {NilErr} \cup PlainErrs \cup TraceableErrs

\* e.Error(): the message, after the place for a traceableError
ErrorText(e) ==
    IF e.kind = "traceable" THEN <<e.place, ": ", e.msg>> ELSE <<e.msg>>

\* err1.err.Error(): the message of the error a traceableError wraps
WrappedText(e) == <<e.msg>>

\* an EqualMsg that compares the messages as they print
EqualMsgNoUnwrap(first, second) ==
    IF first = NilErr \/ second = NilErr
    THEN first = second
    ELSE ErrorText(first) = ErrorText(second)

\* errors.EqualMsg(first, second)
EqualMsg(first, second) ==
    IF first = NilErr \/ second = NilErr
    THEN first = second
    ELSE LET ok1 == first.kind = "traceable"
             ok2 == second.kind = "traceable"
         IN IF ok1
            THEN IF ok2
                 THEN WrappedText(first) = WrappedText(second)
                 ELSE WrappedText(first) = ErrorText(second)
            ELSE IF ok2
                 THEN WrappedText(second) = ErrorText(first)
                 ELSE ErrorText(first) = ErrorText(second)

\* errors.EqualMsg(scenario.err1, scenario.err2)
EqualMsgCall(first, second) ==
    /\ ucall' = [fn |-> "EqualMsg", a |-> first, b |-> second,
                 res |-> EqualMsg(first, second)]
    /\ UNCHANGED <<dbVars, uq, pgVars, logVars, lockVars>>

UtilNext ==
    \/ \E path \in Paths : \E n \in PathNs : RelevantPathCall(path, n)
    \/ \E first, second \in ErrValues : EqualMsgCall(first, second)

UtilSpec == Init /\ [][UtilNext]_vars

----------------------------------------------------------------------------
\* The lock of dbChecker (db.go:362-389), one step per statement.  A caller
\* of DB.Begin calls unreachable() and then, outside the lock, newTx; a
\* check() task calls start(), runs the loop (tick, newTx), calls stop()
\* and commits.

lockOutside ==
    <<cpc, cinv, cres, inv, spawned, prb, nbegin, uq, pgVars, logVars,
      utilVars>>

\* d.RLock() goes through when no writer has called Lock
rlockFree(m) == m.w = NoWriter

\* d.RLock() in unreachable(): the caller gets the lock or blocks
RLock(c) ==
    /\ bg[c].pc = "begin"
    /\ IF rlockFree(mu)
       THEN /\ mu' = [mu EXCEPT !.r = @ \cup {c}]
            /\ bg' = [bg EXCEPT ![c].pc = "rlocked"]
       ELSE /\ mu' = [mu EXCEPT !.rwait = @ \cup {c}]
            /\ bg' = [bg EXCEPT ![c].pc = "rlock"]
    /\ UNCHANGED <<checking, ck, lockOutside>>

\* return d.checking: the value is read under the read lock
ReadFlag(c) ==
    /\ bg[c].pc = "rlocked"
    /\ bg' = [bg EXCEPT ![c] = [pc |-> "read", val |-> unreachable]]
    /\ UNCHANGED <<checking, mu, ck, lockOutside>>

\* defer d.RUnlock(); then DB.Begin returns ErrUnreachable or enters newTx
RUnlock(c) ==
    /\ bg[c].pc = "read"
    /\ mu' = [mu EXCEPT !.r = @ \ {c}]
    /\ bg' = [bg EXCEPT ![c].pc = IF bg[c].val THEN "begin" ELSE "newTx"]
    /\ UNCHANGED <<checking, ck, lockOutside>>

\* newTx returns a transaction or an error of the pool
NewTxDone(c) ==
    /\ bg[c].pc = "newTx"
    /\ bg' = [bg EXCEPT ![c].pc = "begin"]
    /\ UNCHANGED <<checking, mu, ck, lockOutside>>

\* newTx returns ErrNewTxTimedOut: go func() { db.checker.check(...) }()
NewTxTimedOut(c) ==
    /\ bg[c].pc = "newTx"
    /\ \E p \in Probers :
          /\ ck[p].pc = "idle"
          /\ \A q \in Probers : ck[q].pc = "idle" => p <= q
          /\ ck' = [ck EXCEPT ![p] = [pc |-> "start", ok |-> FALSE]]
    /\ bg' = [bg EXCEPT ![c].pc = "begin"]
    /\ UNCHANGED <<checking, mu, lockOutside>>

\* d.Lock() in start() or stop(): the task becomes the writer
Lock(p) ==
    /\ ck[p].pc \in {"start", "stop"}
    /\ mu.w = NoWriter
    /\ mu' = [mu EXCEPT !.w = p]
    /\ ck' = [ck EXCEPT ![p].pc = IF ck[p].pc = "start" THEN "startLock"
                                                       ELSE "stopLock"]
    /\ UNCHANGED <<checking, bg, lockOutside>>

\* d.Lock() returns when the readers that held the lock have left
LockGot(p) ==
    /\ ck[p].pc \in {"startLock", "stopLock"}
    /\ mu.r = {}
    /\ mu' = [mu EXCEPT !.held = TRUE]
    /\ ck' = [ck EXCEPT ![p].pc = IF ck[p].pc = "startLock" THEN "startLocked"
                                                           ELSE "stopLocked"]
    /\ UNCHANGED <<checking, bg, lockOutside>>

\* if d.checking { return false }; d.checking = true; return true
StartSet(p) ==
    /\ ck[p].pc = "startLocked"
    /\ checking' = start(checking).checking
    /\ ck' = [ck EXCEPT ![p] = [pc |-> "startSet", ok |-> start(checking).ok]]
    /\ UNCHANGED <<mu, bg, lockOutside>>

\* d.checking = false
StopSet(p) ==
    /\ ck[p].pc = "stopLocked"
    /\ checking' = stop(checking)
    /\ ck' = [ck EXCEPT ![p].pc = "stopSet"]
    /\ UNCHANGED <<mu, bg, lockOutside>>

\* where check() goes on after start() or stop() has returned
afterUnlock(t) ==
    IF t.pc = "startSet" THEN (IF t.ok THEN "tick" ELSE "idle") ELSE "commit"

\* the lock after an Unlock that is not done
UnlockedNot(m) == m

\* the lock after d.Unlock(): the blocked readers get the lock
Unlocked(m) ==
    [w |-> NoWriter, held |-> FALSE, r |-> m.rwait, rwait |-> {}]

\* defer d.Unlock(); then start() returns to check(), which returns or
\* enters the loop, or stop() returns and check() goes to tx.Commit()
Unlock(p) ==
    /\ ck[p].pc \in {"startSet", "stopSet"}
    /\ mu' = Unlocked(mu)
    /\ bg' = [c \in Callers |->
                IF c \in mu.rwait THEN [bg[c] EXCEPT !.pc = "rlocked"]
                                  ELSE bg[c]]
    /\ ck' = [ck EXCEPT ![p].pc = afterUnlock(ck[p])]
    /\ UNCHANGED <<checking, lockOutside>>

\* for range time.Tick(2 * time.Second): a tick arrives, newTx is called
LockTick(p) ==
    /\ ck[p].pc = "tick"
    /\ ck' = [ck EXCEPT ![p].pc = "newTx"]
    /\ UNCHANGED <<checking, mu, bg, lockOutside>>

\* if err != nil { continue }
ProbeFailed(p) ==
    /\ ck[p].pc = "newTx"
    /\ ck' = [ck EXCEPT ![p].pc = "tick"]
    /\ UNCHANGED <<checking, mu, bg, lockOutside>>

\* newTx returned a transaction: d.stop() is called
ProbeDone(p) ==
    /\ ck[p].pc = "newTx"
    /\ ck' = [ck EXCEPT ![p].pc = "stop"]
    /\ UNCHANGED <<checking, mu, bg, lockOutside>>

\* tx.Commit(); return
LockCommit(p) ==
    /\ ck[p].pc = "commit"
    /\ ck' = [ck EXCEPT ![p].pc = "idle"]
    /\ UNCHANGED <<checking, mu, bg, lockOutside>>

LockNext ==
    \/ \E c \in Callers : RLock(c)
    \/ \E c \in Callers : ReadFlag(c)
    \/ \E c \in Callers : RUnlock(c)
    \/ \E c \in Callers : NewTxDone(c)
    \/ \E c \in Callers : NewTxTimedOut(c)
    \/ \E p \in Probers : Lock(p)
    \/ \E p \in Probers : LockGot(p)
    \/ \E p \in Probers : StartSet(p)
    \/ \E p \in Probers : StopSet(p)
    \/ \E p \in Probers : Unlock(p)
    \/ \E p \in Probers : LockTick(p)
    \/ \E p \in Probers : ProbeFailed(p)
    \/ \E p \in Probers : ProbeDone(p)
    \/ \E p \in Probers : LockCommit(p)

\* A goroutine that runs goes on running: the statements between RLock
\* and RUnlock and between Lock and Unlock are taken.  sync.Mutex hands
\* the lock to a waiter that has waited long (starvation mode), so a Lock
\* that can go through again and again does go through.  Nothing is
\* asked of the pool, the timers and the ticker.
LockFairness ==
    /\ \A c \in Callers : WF_vars(ReadFlag(c) \/ RUnlock(c))
    /\ \A p \in Probers :
          /\ SF_vars(Lock(p))
          /\ WF_vars(LockGot(p) \/ StartSet(p) \/ StopSet(p) \/ Unlock(p))

LockSpec == Init /\ [][LockNext]_vars /\ LockFairness

----------------------------------------------------------------------------
\* The earlier version of the package (db.go:512-602): NewTx with the
\* package-level checker; Check() calls checking() and then start(), each
\* of them under the lock for itself.  Callers are in bg, Check() tasks
\* in ck; the lock is free between the steps.

\* func (d *dbChecker) checking() bool
checkingRead == checking

\* func (d *dbChecker) start() of that version: d.checking = true
startSet(flag) == TRUE

\* NewTx: if checker.checking() { return nil, ErrNewTxTimedOut }; else
\* newTx is entered
PkgNewTx(c) ==
    /\ bg[c].pc = "begin"
    /\ bg' = [bg EXCEPT ![c] = [pc |-> IF checkingRead THEN "begin"
                                                       ELSE "newTx",
                                val |-> checkingRead]]
    /\ UNCHANGED <<checking, mu, ck, lockOutside>>

\* newTx returns a transaction or an error of the pool
PkgNewTxDone(c) ==
    /\ bg[c].pc = "newTx"
    /\ bg' = [bg EXCEPT ![c].pc = "begin"]
    /\ UNCHANGED <<checking, mu, ck, lockOutside>>

\* newTx returns ErrNewTxTimedOut: go func() { checker.Check(db, timeout) }()
PkgNewTxTimedOut(c) ==
    /\ bg[c].pc = "newTx"
    /\ \E p \in Probers :
          /\ ck[p].pc = "idle"
          /\ \A q \in Probers : ck[q].pc = "idle" => p <= q
          /\ ck' = [ck EXCEPT ![p] = [pc |-> "start", ok |-> FALSE]]
    /\ bg' = [bg EXCEPT ![c].pc = "begin"]
    /\ UNCHANGED <<checking, mu, lockOutside>>

\* Check: if d.checking() { return }
PkgChecking(p) ==
    /\ ck[p].pc = "start"
    /\ ck' = [ck EXCEPT ![p] = [pc |-> IF checkingRead THEN "idle"
                                                       ELSE "startSet",
                                ok |-> ~checkingRead]]
    /\ UNCHANGED <<checking, mu, bg, lockOutside>>

\* Check: d.start(); the loop begins
PkgStart(p) ==
    /\ ck[p].pc = "startSet"
    /\ checking' = startSet(checking)
    /\ ck' = [ck EXCEPT ![p].pc = "tick"]
    /\ UNCHANGED <<mu, bg, lockOutside>>

\* for range time.Tick(2 * time.Second): newTx is called
PkgTick(p) ==
    /\ ck[p].pc = "tick"
    /\ ck' = [ck EXCEPT ![p].pc = "newTx"]
    /\ UNCHANGED <<checking, mu, bg, lockOutside>>

\* if err != nil { continue }
PkgProbeFailed(p) ==
    /\ ck[p].pc = "newTx"
    /\ ck' = [ck EXCEPT ![p].pc = "tick"]
    /\ UNCHANGED <<checking, mu, bg, lockOutside>>

\* newTx returned a transaction: d.stop()
PkgStop(p) ==
    /\ ck[p].pc = "newTx"
    /\ checking' = stop(checking)
    /\ ck' = [ck EXCEPT ![p].pc = "commit"]
    /\ UNCHANGED <<mu, bg, lockOutside>>

\* tx.Commit(); return
PkgCommit(p) ==
    /\ ck[p].pc = "commit"
    /\ ck' = [ck EXCEPT ![p].pc = "idle"]
    /\ UNCHANGED <<checking, mu, bg, lockOutside>>

PkgNext ==
    \/ \E c \in Callers : PkgNewTx(c)
    \/ \E c \in Callers : PkgNewTxDone(c)
    \/ \E c \in Callers : PkgNewTxTimedOut(c)
    \/ \E p \in Probers : PkgChecking(p)
    \/ \E p \in Probers : PkgStart(p)
    \/ \E p \in Probers : PkgTick(p)
    \/ \E p \in Probers : PkgProbeFailed(p)
    \/ \E p \in Probers : PkgStop(p)
    \/ \E p \in Probers : PkgCommit(p)

PkgSpec == Init /\ [][PkgNext]_vars

----------------------------------------------------------------------------
\* vocabulary of the properties

\* caller c takes the first step of DB.Begin
Calls(c) == cpc[c] = "idle" /\ cpc'[c] # "idle"

\* the newTx of caller c returns and so does DB.Begin
Returns(c) == cpc[c] = "select" /\ cpc'[c] = "done"

\* the check() tasks to which start() returned true and that have not
\* called stop() yet
Looping == {p \in Probers : prb[p].pc \in {"loop", "probing", "gotTx"}}

\* the transaction of slot i is in the hands of a caller of newTx
TxHeld(i) ==
    \/ \E c \in Callers : cres[c].tx = i
    \/ \E p \in Probers :
          prb[p].pinv = i /\ prb[p].pc \in {"gotTx", "stopped", "committed"}

\* the transaction of slot i exists, newTx has not returned it and nobody
\* has committed it
Pending(i) ==
    inv[i].tx # NilTx /\ inv[i].nres # "tx" /\ inv[i].acqCommit = 0

\* the transaction of slot i was returned by newTx or committed by the
\* goroutine of newTx
Settled(i) == inv[i].nres = "tx" \/ inv[i].acqCommit > 0

\* no begin call is late or failing: no newTx has timed out with its
\* goroutine still around, and no error is waiting in chErr
Good ==
    \A i \in Slots : inv[i].nres # "timeout" /\ inv[i].chErr = <<>>

\* C1: a Begin whose read of the flag returns true returns
\* (nil, ErrUnreachable) in that very step; it starts no newTx (no begin call
\* on the pool), spawns no check() and leaves the flag and the probers alone.
C1_FailFast ==
    [][\A c \in Callers :
         (Calls(c) /\ checking) =>
            /\ cpc'[c] = "done"
            /\ cres'[c] = [tx |-> NilTx, err |-> ErrUnreachable]
            /\ UNCHANGED <<checking, inv, cinv, spawned, prb>>]_vars

\* every caller at once has been turned away while the flag is set
C1_Witness ==
    /\ checking
    /\ \A c \in Callers : cpc[c] = "done" /\ cres[c].err = ErrUnreachable

\* C2: at most one check() task is between a start() that returned true
\* and its stop(), and a check() task that finds the flag set returns
\* without looping and without touching the flag.
C2_SingleProber ==
    /\ [](Cardinality(Looping) <= 1)
    /\ [][(spawned' < spawned /\ checking) =>
             (checking' = checking /\ prb' = prb)]_vars

\* a loop is running while a second check() task, spawned by another
\* timeout, is about to call start()
C2_Witness ==
    /\ Cardinality(Looping) = 1
    /\ spawned > 0
    /\ checking

\* C3: a transaction that the pool has produced and that newTx has not
\* returned is eventually committed by the goroutine of newTx, and it stops
\* being in that state only by being returned or committed; when newTx has
\* answered ErrNewTxTimedOut the transaction is in nobody's hands.
C3_NoOrphan ==
    /\ \A i \in Slots : Pending(i) ~> Settled(i)
    /\ [][\A i \in Slots : (Pending(i) /\ ~Pending(i)') => Settled(i)']_vars
    /\ [](\A i \in Slots : inv[i].nres = "timeout" => ~TxHeld(i))

\* a transaction that arrived after the timeout has been committed by the
\* goroutine
C3_Witness ==
    \E i \in Slots :
        inv[i].nres = "timeout" /\ inv[i].tx # NilTx /\ inv[i].acqCommit = 1

\* C4: a transaction returned by newTx is never committed by the goroutine
\* (the goroutine finds false in cancel), a transaction committed by the
\* goroutine is in no caller's hands and is not committed by the prober, and
\* no transaction is committed twice.
C4_ExclusiveOwner ==
    \A i \in Slots :
        /\ inv[i].nres = "tx" =>
              /\ inv[i].acqCommit = 0
              /\ inv[i].gpc = "recvCancel" => inv[i].cancel = <<FALSE>>
        /\ inv[i].acqCommit > 0 => (~TxHeld(i) /\ inv[i].prbCommit = 0)
        /\ inv[i].acqCommit + inv[i].prbCommit <= 1
        /\ inv[i].prbCommit > 0 => inv[i].nres = "tx"

\* the goroutine has read false and ended while a caller, and elsewhere the
\* prober after its commit, holds the transaction
C4_Witness ==
    /\ \E i \in Slots : \E c \in Callers :
          inv[i].gpc = "dead" /\ cres[c].tx = i
    /\ \E i \in Slots : inv[i].gpc = "dead" /\ inv[i].prbCommit = 1

\* C5: (a) if from some point on no begin call is late or failing, the
\* flag does not stay set: the gateway cannot remain Probing forever with
\* every begin call answered in time; (b) a Begin that reads the flag as
\* false starts a newTx, that is a begin call on the pool, instead of
\* answering ErrUnreachable.
C5_Recovery ==
    /\ []<>(~Good \/ ~checking)
    /\ [][\A c \in Callers :
            (Calls(c) /\ ~checking) =>
               /\ cpc'[c] = "select"
               /\ inv[cinv'[c]] = NoInv
               /\ inv'[cinv'[c]] = NewInv]_vars

\* a probe has succeeded and reset the flag, and a caller that called Begin
\* afterwards is inside newTx
C5_Witness ==
    /\ ~checking
    /\ \E p \in Probers : prb[p].pc \in {"stopped", "committed"}
    /\ \E c \in Callers : cpc[c] = "select"

\* C6: a Begin that waits in the select of newTx eventually returns, with
\* no assumption on the pool or on the prober; when it returns with nothing
\* deposited in ch or chErr, the result is (nil, ErrNewTxTimedOut).
C6_BoundedWait ==
    /\ \A c \in Callers : (cpc[c] = "select") ~> (cpc[c] = "done")
    /\ [][\A c \in Callers :
            (Returns(c) /\ inv[cinv[c]].ch = <<>> /\ inv[cinv[c]].chErr = <<>>) =>
               cres'[c] = [tx |-> NilTx, err |-> ErrNewTxTimedOut]]_vars

\* a caller got ErrNewTxTimedOut while its begin call is still pending and
\* the prober of an earlier timeout is inside a probe
C6_Witness ==
    /\ \E c \in Callers :
          /\ cpc[c] = "done"
          /\ cres[c].err = ErrNewTxTimedOut
          /\ inv[cinv[c]].gpc = "calling"
    /\ \E p \in Probers : prb[p].pc = "probing"

\* C7: when newTx times out under Begin, Begin returns
\* (nil, ErrNewTxTimedOut) and has spawned one check() task; a spawned
\* check() task leads to a state in which the flag is set.
C7_TimeoutProbes ==
    /\ [][\A c \in Callers :
            (Returns(c) /\ inv'[cinv[c]].nres = "timeout") =>
               /\ cres'[c] = [tx |-> NilTx, err |-> ErrNewTxTimedOut]
               /\ spawned' = spawned + 1]_vars
    /\ (spawned > 0) ~> checking

\* the caller holds ErrNewTxTimedOut and the check() it spawned has set the flag
C7_Witness ==
    /\ checking
    /\ spawned = 0
    /\ \E c \in Callers : cpc[c] = "done" /\ cres[c].err = ErrNewTxTimedOut

\* C8: when newTx returns the error of the pool, Begin returns (nil, that
\* error), spawns no check() and leaves the flag and the probers alone;
\* check() is spawned only by a Begin that returns ErrNewTxTimedOut.
C8_UnderlyingError ==
    /\ [][\A c \in Callers :
            (Returns(c) /\ inv'[cinv[c]].nres = "err") =>
               /\ inv[cinv[c]].err \in UnderlyingErrs
               /\ cres'[c] = [tx |-> NilTx, err |-> inv[cinv[c]].err]
               /\ UNCHANGED <<checking, spawned, prb>>]_vars
    /\ [][spawned' > spawned =>
            \E c \in Callers : Returns(c) /\ cres'[c].err = ErrNewTxTimedOut]_vars

\* a caller holds the error of the pool and the gateway is idle
C8_Witness ==
    /\ ~checking
    /\ spawned = 0
    /\ Looping = {}
    /\ \E c \in Callers : cpc[c] = "done" /\ cres[c].err \in UnderlyingErrs

\* C9: when the select of newTx takes the transaction from ch (the begin
\* call answered before the timer), Begin returns (that transaction, nil),
\* spawns no check() and leaves the flag alone.
C9_Success ==
    [][\A c \in Callers :
         (Returns(c) /\ inv'[cinv[c]].nres = "tx") =>
            /\ inv[cinv[c]].tx = cinv[c]
            /\ cres'[c] = [tx |-> inv[cinv[c]].tx, err |-> ErrNil]
            /\ UNCHANGED <<checking, spawned, prb>>]_vars

\* a caller holds its transaction and the gateway is idle
C9_Witness ==
    /\ ~checking
    /\ spawned = 0
    /\ \E c \in Callers : cpc[c] = "done" /\ cres[c].tx # NilTx

\* C10: what Begin returns is (tx, nil), (nil, ErrUnreachable),
\* (nil, ErrNewTxTimedOut) or (nil, an error of the pool); the transaction
\* is non-nil exactly when the error is nil.
C10_Outcomes ==
    \A c \in Callers :
        cpc[c] = "done" =>
           /\ cres[c].err \in {ErrNil, ErrUnreachable, ErrNewTxTimedOut}
                                  \cup UnderlyingErrs
           /\ cres[c].tx \in {NilTx} \cup Slots
           /\ cres[c].tx # NilTx <=> cres[c].err = ErrNil

\* one caller holds a transaction while another was turned away
C10_Witness ==
    \E c, d \in Callers :
        /\ cpc[c] = "done" /\ cres[c].tx # NilTx
        /\ cpc[d] = "done" /\ cres[d].err = ErrUnreachable

\* C11: Unreachable(db) answers false for a nil *DB and otherwise the value
\* the flag has at the call; the flag is true exactly while a check() task
\* is between its successful start() and its stop(); the call starts no
\* newTx (no begin call on the pool) and changes nothing of the gateway.
C11_Unreachable ==
    /\ [](checking <=> Looping # {})
    /\ [][uq' # uq =>
             /\ uq'.db \in DBs
             /\ uq'.res = (uq'.db # NilDB /\ checking)
             /\ UNCHANGED dbVars]_vars

\* all three answers have been seen: true while the loop runs after a
\* timeout, false for the nil *DB in that same state
C11_Witness ==
    /\ checking
    /\ Looping # {}
    /\ uq = [db |-> NilDB, res |-> FALSE]
    /\ \E c \in BeginCallers : cpc[c] = "done" /\ cres[c].err = ErrUnreachable

\* newTx returns to caller c, to prober p
NewTxReturns(c) == Returns(c)
ProbeReturns(p) == prb[p].pc = "probing" /\ prb'[p].pc # "probing"

\* C12 as claimed: whenever the transaction is already on ch when the
\* select of newTx resolves, newTx returns that transaction and not
\* ErrNewTxTimedOut.
C12_TieBreakTx ==
    [][/\ \A c \in Callers :
            (NewTxReturns(c) /\ inv[cinv[c]].ch # <<>>) =>
               cres'[c] = [tx |-> Head(inv[cinv[c]].ch), err |-> ErrNil]
       /\ \A p \in Probers :
            (ProbeReturns(p) /\ inv[prb[p].pinv].ch # <<>>) =>
               prb'[p].pc = "gotTx"]_vars

\* C12 amended: when the transaction is already on ch when the select
\* resolves, newTx returns either that transaction with a nil error, having
\* put false on cancel, or (nil, ErrNewTxTimedOut), having put true on cancel
\* and left the transaction on ch for the goroutine to commit.
C12_TieEither ==
    [][/\ \A c \in Callers :
            (NewTxReturns(c) /\ inv[cinv[c]].ch # <<>>) =>
               \/ /\ cres'[c] = [tx |-> Head(inv[cinv[c]].ch), err |-> ErrNil]
                  /\ inv'[cinv[c]].cancel = <<FALSE>>
                  /\ inv'[cinv[c]].ch = <<>>
               \/ /\ cres'[c] = [tx |-> NilTx, err |-> ErrNewTxTimedOut]
                  /\ inv'[cinv[c]].cancel = <<TRUE>>
                  /\ inv'[cinv[c]].ch = inv[cinv[c]].ch
       /\ \A p \in Probers :
            (ProbeReturns(p) /\ inv[prb[p].pinv].ch # <<>>) =>
               \/ /\ prb'[p] = [pc |-> "gotTx", pinv |-> prb[p].pinv]
                  /\ inv'[prb[p].pinv].cancel = <<FALSE>>
                  /\ inv'[prb[p].pinv].ch = <<>>
               \/ /\ prb'[p] = [pc |-> "loop", pinv |-> 0]
                  /\ inv'[prb[p].pinv].cancel = <<TRUE>>
                  /\ inv'[prb[p].pinv].ch = inv[prb[p].pinv].ch]_vars

\* one caller was handed its transaction while another got
\* ErrNewTxTimedOut with its transaction lying on ch
C12_Witness ==
    \E c, d \in Callers :
        /\ cpc[c] = "done" /\ cres[c].tx # NilTx
        /\ inv[cinv[c]].cancel = <<FALSE>>
        /\ cpc[d] = "done" /\ cres[d].err = ErrNewTxTimedOut
        /\ inv[cinv[d]].ch # <<>> /\ inv[cinv[d]].cancel = <<TRUE>>

\* the goroutine of slot i has its answer from the pool and has not ended
Delivering(i) ==
    inv[i].gpc \in {"sendCh", "sendErr", "recvCancel", "committed"}

\* C13: once the begin call of a newTx has returned, its goroutine ends:
\* it never waits in the send to ch or chErr (the send is part of the step
\* in which the call returns), and from the receive on cancel it always
\* goes on, to the commit or to its end, whatever the caller took.
C13_NonBlocking ==
    /\ [](\A i \in Slots : inv[i].gpc \notin {"sendCh", "sendErr"})
    /\ \A i \in Slots : Delivering(i) ~> ~Delivering(i)
    /\ [][\A i \in Slots :
            (Delivering(i) /\ ~Delivering(i)') =>
               inv'[i].gpc \in {"dead", "none"}]_vars
    /\ [][\A i \in Slots :
            (inv[i].gpc = "calling" /\ inv'[i].gpc \notin {"calling", "hung"}) =>
               \/ inv'[i].gpc = "recvCancel" /\ inv'[i].ch = <<i>>
               \/ inv'[i].gpc = "dead" /\ inv'[i].chErr = <<inv'[i].err>>
               \/ inv'[i].gpc = "none"]_vars

\* three goroutines have ended: one told true after its caller had timed
\* out, one whose error the caller took (seen at the prober), ...
C13_Witness ==
    /\ \E c \in Callers :
          /\ cpc[c] = "done" /\ cres[c].err = ErrNewTxTimedOut
          /\ inv[cinv[c]].gpc = "dead" /\ inv[cinv[c]].acqCommit = 1
    /\ \E c \in Callers :
          /\ cpc[c] = "done" /\ cres[c].err \in UnderlyingErrs
          /\ inv[cinv[c]].gpc = "dead" /\ inv[cinv[c]].closed

\* C14 as claimed: whenever the newTx of DB.Begin times out, a message is
\* written through package log.
C14_LogOnTimeout ==
    [][\A c \in Callers :
          Returns(c) /\ cres'[c].err = ErrNewTxTimedOut
             => localOut' # localOut \/ remoteOut' # remoteOut]_vars

\* C14 amended: a DB.Begin whose newTx times out writes nothing through
\* package log; the timeout shows only as the error ErrNewTxTimedOut that
\* Begin returns, with no transaction.
C14_NoLogOnTimeout ==
    [][\A c \in Callers :
          Returns(c) /\ cres'[c].err = ErrNewTxTimedOut
             => /\ UNCHANGED logVars
                /\ cres'[c].tx = NilTx]_vars

\* a Begin has returned ErrNewTxTimedOut and nothing was logged
C14_Witness ==
    /\ \E c \in Callers : cpc[c] = "done" /\ cres[c].err = ErrNewTxTimedOut
    /\ localOut = <<>>
    /\ remoteOut = <<>>

\* the newTx invocations whose select has not returned yet
Waited == {i \in Slots : inv[i].gpc # "none" /\ inv[i].nres = "none"}

\* C15: in the outage scenario (the first two calls of the pool's Begin
\* outlast the timeout, the later ones return at once) the first Begin
\* returns ErrNewTxTimedOut; a Begin called while a prober is past start()
\* and before stop() returns ErrUnreachable; the second and third call of
\* the pool are the prober's first and second tick; the first tick times
\* out and leaves the flag true; the second gets a transaction and the flag
\* is reset; a Begin whose newTx runs after that returns a transaction.
C15_Outage ==
    /\ [](Cardinality(Waited) <= 1)
    /\ [](\A p \in Probers : prb[p].pc = "loop" => nbegin \in {1, 2})
    /\ [][Calls(Driver) /\ cpc'[Driver] = "select" => nbegin \in {0, 3}]_vars
    /\ [][Returns(Driver) /\ nbegin = 1 =>
             cres'[Driver] = [tx |-> NilTx, err |-> ErrNewTxTimedOut]]_vars
    /\ [][Calls(Driver) /\ Looping # {} =>
             /\ cpc'[Driver] = "done"
             /\ cres'[Driver] = [tx |-> NilTx, err |-> ErrUnreachable]]_vars
    /\ [][\A p \in Probers :
             ProbeReturns(p) /\ nbegin = 2 =>
                prb'[p].pc = "loop" /\ checking /\ checking']_vars
    /\ [][\A p \in Probers :
             ProbeReturns(p) /\ nbegin = 3 => prb'[p].pc = "gotTx"]_vars
    /\ [][\A p \in Probers :
             prb[p].pc = "gotTx" /\ prb'[p].pc # "gotTx" => ~checking']_vars
    /\ [][Returns(Driver) /\ nbegin = 3 =>
             cres'[Driver].err = ErrNil /\ cres'[Driver].tx # NilTx]_vars

\* the outage is over: the prober has ended, the flag is down and the
\* driver's Begin has returned a transaction
C15_Witness ==
    /\ cpc[Driver] = "done"
    /\ cres[Driver].err = ErrNil
    /\ cres[Driver].tx # NilTx
    /\ nbegin = 3
    /\ ~checking
    /\ \A p \in Probers : prb[p] = NoPrb

\* C16 as claimed: the connection string carries port=5432 when
\* ConnParams.Port is zero, and a non-zero Port unchanged.
C16_DefaultPort ==
    dsn # NoDsn =>
       dsn.port = IF connParams.Port = 0 THEN 5432 ELSE connParams.Port

\* C17: for timeouts of whole seconds, connect_timeout is the number of
\* seconds of ConnectTimeout and statement_timeout the number of
\* milliseconds of StatementTimeout; 3s and 10s give 3 and 10000.
C17_Timeouts ==
    dsn # NoDsn =>
       /\ dsn.connect_timeout * Second = connParams.ConnectTimeout
       /\ dsn.statement_timeout * Millisecond = connParams.StatementTimeout
       /\ (connParams.ConnectTimeout = NewConnParams.ConnectTimeout
              /\ connParams.StatementTimeout = NewConnParams.StatementTimeout)
            => (dsn.connect_timeout = 3 /\ dsn.statement_timeout = 10000)

\* the connection string of the default timeouts, 3s and 10s
C17_Witness ==
    /\ dsn # NoDsn
    /\ connParams.ConnectTimeout = 3 * Second
    /\ connParams.StatementTimeout = 10 * Second
    /\ dsn.connect_timeout = 3
    /\ dsn.statement_timeout = 10000

\* a call of Close is entered
CloseCalled == lcall.op = "none" /\ lcall'.op = "Close"

\* C18: log.Close with no remote logger returns nil and changes nothing;
\* when the writer's Close succeeds it returns nil and clears remoteLogger,
\* and the log calls that follow write to the local logger only; when the
\* writer's Close fails it returns that error and remoteLogger stays set; a
\* Close right after a successful one changes nothing.
C18_Close ==
    /\ [](lcall.op \notin {"none", "Close"} /\ lcall.rl = NilWriter
            => remoteOut = <<>>)
    /\ [](lcall.op = "none" /\ lcall.prev = "closed"
            => remoteLogger = NilWriter)
    /\ [][CloseCalled =>
            /\ remoteLogger = NilWriter =>
                  /\ lcall'.ret = ErrNil
                  /\ UNCHANGED <<remoteLogger, remoteOut, localOut>>
            /\ remoteLogger # NilWriter /\ lcall'.werr = ErrNil =>
                  /\ lcall'.ret = ErrNil
                  /\ remoteLogger' = NilWriter
            /\ remoteLogger # NilWriter /\ lcall'.werr # ErrNil =>
                  /\ lcall'.ret = lcall'.werr
                  /\ remoteLogger' = remoteLogger
            /\ lcall.prev = "closed" =>
                  /\ lcall'.ret = ErrNil
                  /\ UNCHANGED <<remoteLogger, remoteOut, localOut>>]_vars

\* Close is called again right after it closed the writer
C18_Witness ==
    /\ lcall.op = "Close"
    /\ lcall.prev = "closed"
    /\ lcall.rl = NilWriter
    /\ lcall.ret = ErrNil
    /\ remoteLogger = NilWriter

\* the methods of Logger that take a message, and the method of the
\* writer that is of the level of each
MessageOps ==
    {"Emerg", "Alert", "Crit", "Warning", "Notice", "Info", "Debug"}
FormatOps ==
    {"Emergf", "Alertf", "Critf", "Errorf", "Warningf", "Noticef", "Infof",
     "Debugf"}
WriterOf ==
    [Emerg |-> "Emerg", Emergf |-> "Emerg", Alert |-> "Alert",
     Alertf |-> "Alert", Crit |-> "Crit", Critf |-> "Crit",
     Errorf |-> "Err", Warning |-> "Warning", Warningf |-> "Warning",
     Notice |-> "Notice", Noticef |-> "Notice", Info |-> "Info",
     Infof |-> "Info", Debug |-> "Debug", Debugf |-> "Debug"]

\* the text the call under way logs
LoggedText ==
    IF lcall.op \in FormatOps THEN Sprintf(lcall.m, lcall.a) ELSE lcall.m

\* the non-empty lines of a text are its longest runs without a newline
LineStarts(t) ==
    {i \in 1..Len(t) : t[i] # NL /\ (i = 1 \/ t[i - 1] = NL)}
LineEnd(t, i) ==
    CHOOSE j \in i..Len(t) :
        /\ \A k \in i..j : t[k] # NL
        /\ j = Len(t) \/ t[j + 1] = NL
Ascending(S) ==
    [k \in 1..Cardinality(S) |->
        CHOOSE i \in S : Cardinality({j \in S : j < i}) = k - 1]
NonEmptyLines(t) ==
    LET starts == Ascending(LineStarts(t))
    IN [k \in 1..Len(starts) |-> SubSeq(t, starts[k], LineEnd(t, starts[k]))]

\* some line of the text is empty
HasEmptyLine(t) ==
    \/ t = <<>>
    \/ t[1] = NL
    \/ t[Len(t)] = NL
    \/ \E i \in 1..(Len(t) - 1) : t[i] = NL /\ t[i + 1] = NL

WriterMethods ==
    <<"Emerg", "Alert", "Crit", "Err", "Warning", "Notice", "Info", "Debug">>

\* C20: Logger.Error ignores a nil error; with no writer connected the
\* message goes to the local logger; with a writer connected and no write
\* failing, an error with a Level() of Emergency..Debug is written through
\* the writer's method of that level, an error without level through Err,
\* and an error of an unknown level gives a Warning "Wrong error level"
\* and then a write through Err.
C20_ErrorDispatch ==
    lcall.op = "Error" =>
       LET e == lcall.e
           msg == [prefix |-> <<"[", lcall.id, "] ">>, file |-> <<>>,
                   line |-> 0, item |-> e.text]
       IN /\ e.isNil => remoteOut = <<>> /\ localOut = <<>>
          /\ ~e.isNil /\ lcall.rl = NilWriter =>
                remoteOut = <<>> /\ localOut = <<msg>>
          /\ ~e.isNil /\ lcall.rl # NilWriter /\ lcall.fail = {} =>
                /\ localOut = <<>>
                /\ e.leveler /\ e.level \in 0..7 =>
                      remoteOut =
                         <<[method |-> WriterMethods[e.level + 1],
                            msg |-> msg]>>
                /\ ~e.leveler =>
                      remoteOut = <<[method |-> "Err", msg |-> msg]>>
                /\ e.leveler /\ e.level \notin 0..7 =>
                      /\ Len(remoteOut) = 2
                      /\ remoteOut[1].method = "Warning"
                      /\ remoteOut[1].msg.item =
                            <<"Wrong error level: ", ToString(e.level)>>
                      /\ remoteOut[2] = [method |-> "Err", msg |-> msg]

\* an error of level Debug went through the writer's Debug
C20_Witness ==
    /\ lcall.op = "Error"
    /\ lcall.rl = SyslogWriter
    /\ lcall.e.leveler
    /\ lcall.e.level = LevelDebug
    /\ Len(remoteOut) = 1
    /\ remoteOut[1].method = "Debug"

C23_FlagLoop ==
    /\ ~checking
    /\ [](checking <=> Cardinality(Looping) = 1)
    /\ [](Cardinality(Looping) <= 1)

\* one check() task is in its loop; of two callers one holds the timeout
\* that started it and the other was turned away at the gate
C23_Witness ==
    /\ checking
    /\ Cardinality(Looping) = 1
    /\ \E c \in Callers : cpc[c] = "done" /\ cres[c].err = ErrNewTxTimedOut
    /\ \E c \in Callers : cpc[c] = "done" /\ cres[c].err = ErrUnreachable
    /\ spawned = 0

\* the flag goes up, and the flag goes down
FlagRaised == ~checking /\ checking'
FlagLowered == checking /\ ~checking'

\* C24: the flag goes from false to true only in the start() of a check()
\* task, and check() tasks are spawned only by a Begin whose newTx returned
\* ErrNewTxTimedOut; a Begin that returns a transaction, an error of the
\* pool or ErrUnreachable neither raises the flag nor spawns a task, and
\* neither does a probe of the prober, however it ends.
C24_OnlyOnTimeout ==
    /\ [][FlagRaised =>
             /\ spawned > 0
             /\ spawned' = spawned - 1
             /\ \E p \in Probers : prb[p].pc = "idle" /\ prb'[p].pc = "loop"]_vars
    /\ [][spawned' > spawned =>
             /\ ~FlagRaised
             /\ \E c \in Callers :
                   /\ Returns(c)
                   /\ cres'[c].err = ErrNewTxTimedOut
                   /\ inv'[cinv[c]].nres = "timeout"]_vars
    /\ [][\A c \in Callers :
             Calls(c) \/ (Returns(c) /\ cres'[c].err # ErrNewTxTimedOut) =>
                UNCHANGED <<checking, spawned>>]_vars
    /\ [][\A p \in Probers :
             (prb[p].pc = "loop" /\ prb'[p].pc = "probing") \/ ProbeReturns(p) =>
                UNCHANGED <<checking, spawned>>]_vars

\* the flag is up, after a Begin that got an error of the pool and one
\* that timed out
C24_Witness ==
    /\ checking
    /\ Looping # {}
    /\ \E c \in Callers : cpc[c] = "done" /\ cres[c].err \in UnderlyingErrs
    /\ \E c \in Callers : cpc[c] = "done" /\ cres[c].err = ErrNewTxTimedOut

\* C25: the flag goes from true to false only in the stop() of a loop
\* whose last probe returned a transaction; a probe that ends in
\* ErrNewTxTimedOut or in an error of the pool leaves the flag up and puts
\* the loop back where it waits for the next tick, with nothing counted.
C25_OnlyOnSuccess ==
    /\ [][FlagLowered =>
             \E p \in Probers :
                /\ prb[p].pc = "gotTx"
                /\ prb'[p].pc = "stopped"
                /\ inv[prb[p].pinv].nres = "tx"
                /\ inv[prb[p].pinv].tx # NilTx]_vars
    /\ [][\A p \in Probers :
             ProbeReturns(p) /\ inv'[prb[p].pinv].nres # "tx" =>
                /\ prb'[p] = [pc |-> "loop", pinv |-> 0]
                /\ checking /\ checking']_vars
    /\ [][\A p \in Probers :
             ProbeReturns(p) /\ inv'[prb[p].pinv].nres = "tx" =>
                prb'[p].pc = "gotTx" /\ checking']_vars

\* the flag is up and the loop waits for its next tick while the pool has
\* been called more often than Begin callers are waiting or hold a result,
\* and an invocation that timed out belongs to no caller
C25_Witness ==
    /\ checking
    /\ \E p \in Probers : prb[p] = [pc |-> "loop", pinv |-> 0]
    /\ nbegin > Cardinality({c \in Callers : cinv[c] # 0})
    /\ \E i \in Slots :
          /\ inv[i].nres = "timeout"
          /\ \A c \in Callers : cinv[c] # i

\* C26 as claimed: the prober commits the transaction of its successful
\* probe before it calls stop(), so whenever stop() has been called that
\* transaction is committed.
C26_CommitBeforeStop ==
    \A p \in Probers :
       prb[p].pc = "stopped" => inv[prb[p].pinv].prbCommit > 0

\* C26 amended: the prober calls stop() first, with the transaction of
\* its successful probe still open, and commits that transaction next,
\* once; until then the flag may already be down.
C26_StopBeforeCommit ==
    /\ [][\A p \in Probers :
             prb[p].pc = "gotTx" /\ prb'[p].pc # "gotTx" =>
                /\ prb'[p].pc = "stopped"
                /\ ~checking'
                /\ inv[prb[p].pinv].prbCommit = 0
                /\ inv' = inv]_vars
    /\ [][\A p \in Probers :
             prb[p].pc = "stopped" /\ prb'[p].pc # "stopped" =>
                /\ prb'[p].pc = "committed"
                /\ inv'[prb[p].pinv].prbCommit = 1
                /\ inv[prb[p].pinv].prbCommit = 0]_vars
    /\ [](\A p \in Probers :
             prb[p].pc = "committed" => inv[prb[p].pinv].prbCommit = 1)

\* the flag is down, the transaction of the probe is still open and a
\* Begin has already been let through to the pool
C26_Witness ==
    /\ ~checking
    /\ \E p \in Probers :
          /\ prb[p].pc = "stopped"
          /\ inv[prb[p].pinv].prbCommit = 0
    /\ \E c \in Callers : cpc[c] = "select"

\* the newTx invocations of the prober whose select has not returned
ProbesOut ==
    {i \in Slots :
        /\ inv[i].gpc # "none"
        /\ inv[i].nres = "none"
        /\ \A c \in Callers : cinv[c] # i}

\* slot i receives a new newTx invocation
Invoked(i) == inv[i] = NoInv /\ inv'[i] # NoInv

\* C27: the prober starts a newTx only when it takes a tick, and only
\* after its previous newTx has returned: at no time are two newTx calls
\* of the prober waiting in their select.
C27_Sequential ==
    /\ [](Cardinality(ProbesOut) <= 1)
    /\ [](\A i \in ProbesOut :
             \E p \in Probers : prb[p] = [pc |-> "probing", pinv |-> i])
    /\ [][\A i \in Slots :
             Invoked(i) /\ (\A c \in Callers : cinv'[c] # i) =>
                /\ ProbesOut = {}
                /\ \E p \in Probers :
                      /\ prb[p].pc = "loop"
                      /\ prb'[p] = [pc |-> "probing", pinv |-> i]]_vars

\* the loop is in a later probe: the pool has been called three times at
\* least and both callers are away
C27_Witness ==
    /\ Cardinality(ProbesOut) = 1
    /\ nbegin > SlowCalls
    /\ \A c \in Callers : cpc[c] = "idle"

\* C28: whenever a check() task calls start() with the flag down it gets
\* true and a loop starts, whatever happened before; stop() puts the flag
\* down again; and through all cycles at most one loop runs.
C28_ReEntry ==
    /\ [][spawned' < spawned /\ ~checking =>
             /\ checking'
             /\ \E p \in Probers : prb[p].pc = "idle" /\ prb'[p].pc = "loop"]_vars
    /\ [][\A p \in Probers :
             prb[p].pc = "gotTx" /\ prb'[p].pc = "stopped" =>
                ~checking' /\ Looping = {p}]_vars
    /\ [](Cardinality(Looping) <= 1 /\ (Looping = {} => ~checking))

\* a second loop runs while the task of the first, which has called
\* stop(), has not returned yet
C28_Witness ==
    /\ checking
    /\ \E p, q \in Probers :
          /\ prb[p].pc \in {"stopped", "committed"}
          /\ prb[q].pc \in {"loop", "probing"}

\* C29: a newTx invocation calls the pool's Begin once, when it starts,
\* and its goroutine never comes back to that call; so an invocation has
\* at most one transaction, which never changes; a Begin that returns
\* ErrUnreachable calls the pool not at all.
C29_OneCall ==
    /\ [][\A i \in Slots :
             inv'[i].gpc = "calling" /\ inv[i].gpc # "calling" =>
                /\ Invoked(i)
                /\ nbegin' = IF nbegin <= SlowCalls THEN nbegin + 1 ELSE nbegin
                /\ \A j \in Slots \ {i} : ~Invoked(j)]_vars
    /\ [][nbegin' # nbegin => \E i \in Slots : Invoked(i)]_vars
    /\ [][\A i \in Slots :
             inv[i].tx # NilTx =>
                inv'[i].tx = inv[i].tx \/ inv'[i] = NoInv]_vars
    /\ [](\A i \in Slots : inv[i].tx \in {NilTx, i})
    /\ [][\A c \in Callers :
             Calls(c) /\ cres'[c].err = ErrUnreachable =>
                nbegin' = nbegin /\ inv' = inv]_vars

\* a Begin was turned away after the pool had been called once
C29_Witness ==
    /\ nbegin = 1
    /\ \E c \in Callers : cpc[c] = "done" /\ cres[c].err = ErrUnreachable
    /\ \E i \in Slots : inv[i].tx = i

\* the callers that are between RLock and RUnlock with the lock
Reading == {c \in Callers : bg[c].pc \in {"rlocked", "read"}}

\* the check() tasks that are between Lock and Unlock with the lock
Writing ==
    {p \in Probers :
        ck[p].pc \in {"startLocked", "startSet", "stopLocked", "stopSet"}}

\* the check() tasks that are inside start() or stop()
InStartStop ==
    {p \in Probers : ck[p].pc \in {"start", "stop", "startLock", "stopLock"}}
        \cup Writing

\* C30: the lock of dbChecker is held only between the Lock or RLock and
\* the deferred unlock of unreachable(), start() and stop(), that is never
\* by a caller inside newTx nor by a check() task that waits for a tick,
\* is inside newTx or commits; a writer excludes the other writers and
\* all readers; and every call of unreachable(), start() and stop()
\* returns, whatever the pool, the timers and the ticker do.
C30_LockDiscipline ==
    /\ [](mu.r = Reading)
    /\ [](\A p \in Probers :
             /\ mu.w = p => p \in InStartStop
             /\ p \in Writing => mu.w = p /\ mu.held)
    /\ [](Cardinality(Writing) <= 1)
    /\ [](Writing # {} => Reading = {})
    /\ \A c \in Callers :
          bg[c].pc \in {"rlock", "rlocked", "read"} ~>
             bg[c].pc \in {"begin", "newTx"}
    /\ \A p \in Probers :
          p \in InStartStop ~> ck[p].pc \in {"idle", "tick", "commit"}

\* a caller is blocked in RLock by the stop() of a check() task that has
\* the lock, while another caller is inside newTx
C30_Witness ==
    /\ \E p \in Probers : ck[p].pc = "stopLocked" /\ mu.w = p
    /\ \E c, d \in Callers :
          /\ bg[c].pc = "rlock" /\ c \in mu.rwait
          /\ bg[d].pc = "newTx"

\* the Check() tasks of the earlier version that are in the loop
PkgLooping == {p \in Probers : ck[p].pc \in {"tick", "newTx"}}

\* C31: in the version with the package-level checker, at most one
\* Check() task at a time is in the probing loop.
C31_PkgOneLoop == Cardinality(PkgLooping) <= 1

\* caller c has got ErrNewTxTimedOut from DB.Begin
TimedOut(c) == cpc[c] = "done" /\ cres[c].err = ErrNewTxTimedOut

\* C32: the Begin that returns ErrNewTxTimedOut only spawns the check()
\* task: it returns with the flag as it was and without that task having
\* called start(); and a Begin called while the flag is false enters newTx
\* and calls the pool, also after another Begin has timed out.
C32_NoWaitForProber ==
    /\ [][\A c \in Callers :
             Returns(c) /\ cres'[c].err = ErrNewTxTimedOut =>
                /\ checking' = checking
                /\ prb' = prb
                /\ spawned' = spawned + 1]_vars
    /\ [][\A c \in Callers :
             Calls(c) /\ ~checking =>
                /\ cpc'[c] = "select"
                /\ Invoked(cinv'[c])]_vars

\* every caller has got ErrNewTxTimedOut, no check() task has called
\* start() yet and the flag is false
C32_Witness ==
    /\ ~checking
    /\ \A c \in Callers : TimedOut(c)
    /\ spawned = NCallers
    /\ Looping = {}

\* the newTx invocations that returned ErrNewTxTimedOut and whose pool
\* call has yielded a transaction after all
Late == {i \in Slots : inv[i].nres = "timeout" /\ inv[i].tx # NilTx}

\* C33: the transaction of a newTx that returned ErrNewTxTimedOut never
\* reaches the prober nor a caller; it is committed by the goroutine of
\* newTx, once, and that commit leaves the flag as it is; the flag falls
\* only in the stop() of a prober whose newTx returned the transaction.
C33_LateIsNoRecovery ==
    /\ [](\A i \in Late :
             /\ ~TxHeld(i)
             /\ inv[i].prbCommit = 0
             /\ inv[i].gpc = "committed" => inv[i].acqCommit = 1)
    /\ [][\A i \in Late :
             inv'[i].acqCommit > inv[i].acqCommit =>
                /\ inv[i].gpc = "recvCancel"
                /\ checking' = checking
                /\ prb' = prb]_vars
    /\ [][FlagLowered =>
             \E p \in Probers :
                /\ prb[p].pc = "gotTx"
                /\ inv[prb[p].pinv].nres = "tx"
                /\ inv[prb[p].pinv].tx = prb[p].pinv]_vars

\* the loop goes on with the flag up after the goroutine of a newTx that
\* timed out has committed its late transaction; no caller is in Begin
C33_Witness ==
    /\ checking
    /\ \E p \in Probers : prb[p] = [pc |-> "loop", pinv |-> 0]
    /\ \A c \in Callers : cpc[c] = "idle"
    /\ nbegin > SlowCalls
    /\ \E i \in Late : inv[i].gpc = "committed" /\ inv[i].acqCommit = 1

\* C34: the prober calls newTx while the flag is true, and the pool is
\* called for it; what a probe gets from newTx is a transaction, an error
\* of the pool or ErrNewTxTimedOut, never ErrUnreachable; and a probe,
\* however it returns, starts no check() task.
C34_ProberBypassesGate ==
    /\ [][\A p \in Probers :
             prb[p].pc = "loop" /\ prb'[p].pc = "probing" =>
                /\ checking /\ unreachable
                /\ Invoked(prb'[p].pinv)
                /\ inv'[prb'[p].pinv].gpc = "calling"]_vars
    /\ [](\A p \in Probers :
             prb[p].pc = "probing" =>
                \A o \in newTx(inv[prb[p].pinv]) : o.err # ErrUnreachable)
    /\ [][\A p \in Probers :
             ProbeReturns(p) => spawned' = spawned /\ checking' = checking]_vars

\* a probe is at the pool while a caller has been turned away with
\* ErrUnreachable and no check() task waits
C34_Witness ==
    /\ checking
    /\ spawned = 0
    /\ \E p \in Probers :
          prb[p].pc = "probing" /\ inv[prb[p].pinv].gpc = "calling"
    /\ \E c \in Callers : cpc[c] = "done" /\ cres[c].err = ErrUnreachable

\* C35: in every interleaving of the select of newTx and its goroutine:
\* ch and chErr receive their message only in the step in which the pool
\* call returns, cancel only in the step in which the select resolves, and
\* each is empty before; no send waits, neither the goroutine's nor the
\* caller's; cancel is closed only when the select takes an error from
\* chErr, once, and nothing is ever sent on it then.
C35_ChannelSafety ==
    /\ [](\A i \in Slots :
             /\ Len(inv[i].ch) <= 1 /\ Len(inv[i].chErr) <= 1
             /\ Len(inv[i].cancel) <= 1
             /\ inv[i].ch = <<>> \/ inv[i].chErr = <<>>
             /\ inv[i].gpc \notin {"sendCh", "sendErr"}
             /\ inv[i].nres = "none" => inv[i].cancel = <<>> /\ ~inv[i].closed
             /\ inv[i].closed => inv[i].cancel = <<>> /\ inv[i].nres = "err"
             /\ i \in Waited /\ inv[i].gpc # "calling" => newTx(inv[i]) # {})
    /\ [][\A i \in Slots :
             /\ Len(inv'[i].ch) > Len(inv[i].ch) =>
                   inv[i].gpc = "calling" /\ inv'[i].gpc = "recvCancel"
             /\ Len(inv'[i].chErr) > Len(inv[i].chErr) =>
                   inv[i].gpc = "calling" /\ inv'[i].gpc \in {"dead", "none"}
             /\ Len(inv'[i].cancel) > Len(inv[i].cancel) =>
                   inv[i].nres = "none" /\ inv'[i].nres \in {"tx", "timeout"}
             /\ inv'[i].closed /\ ~inv[i].closed =>
                   inv[i].nres = "none" /\ inv[i].chErr # <<>>
             /\ inv[i].nres # "none" =>
                   inv'[i].nres = inv[i].nres \/ inv'[i] = NoInv]_vars

\* the select has taken the error and closed cancel in one invocation,
\* and has timed out in another whose transaction lies in ch
C35_Witness ==
    \E i, j \in Slots :
       /\ inv[i].closed /\ inv[i].nres = "err"
       /\ inv[j].nres = "timeout" /\ inv[j].cancel = <<TRUE>>
       /\ inv[j].ch = <<j>>

\* C36: the start() that raises the flag calls the pool not at all: the
\* task goes to wait for the first tick with no newTx of its own; and from
\* then until the stop() after the first probe that returns a transaction,
\* every Begin returns ErrUnreachable without calling the pool, whatever
\* the pool would answer.
C36_NoProbeBeforeTick ==
    /\ [][FlagRaised =>
             /\ inv' = inv
             /\ nbegin' = nbegin
             /\ \E p \in Probers :
                   prb[p] = NoPrb /\ prb'[p] = [pc |-> "loop", pinv |-> 0]]_vars
    /\ [](\A p \in Probers : prb[p].pc = "loop" => prb[p].pinv = 0)
    /\ [][\A c \in Callers :
             Calls(c) /\ Looping # {} =>
                /\ cres'[c] = [tx |-> NilTx, err |-> ErrUnreachable]
                /\ inv' = inv
                /\ nbegin' = nbegin]_vars

\* the loop waits for its first tick, the pool having been called once,
\* by the Begin that timed out; the goroutine of that call has got its
\* transaction and committed it, and a caller was turned away all the same
C36_Witness ==
    /\ nbegin = 1
    /\ \E p \in Probers : prb[p] = [pc |-> "loop", pinv |-> 0]
    /\ \E i \in Late : inv[i].acqCommit = 1
    /\ \E c \in Callers : cpc[c] = "done" /\ cres[c].err = ErrUnreachable

====
